---- MODULE Spec2Model ----
(***************************************************************************)
(* Role-based authorization, signup provisioning and audit model of the    *)
(* contract-management application: the database schema, its row-level-    *)
(* security policies and triggers (the SQL migration), and the client      *)
(* pages that issue requests against them.                                 *)
(***************************************************************************)
EXTENDS Integers, FiniteSets, Sequences, TLC

(* ------------------------------ bounds --------------------------------- *)
\* identities that may sign up
MaxUsers == 2
\* rows held by the domain tables and the storage bucket, all together
MaxRows == 2
\* rows of user_roles
MaxRoleRows == 2
\* entries of audit_logs
MaxAudit == 2
\* documents attached to contracts, and objects in the bucket
MaxDocuments == 1

Users == 1 .. MaxUsers
\* SQL NULL of an id column / of a text column
NullId == 0
NullText == "NULL"

(* ------------------------------ schema --------------------------------- *)
app_role == {"admin", "gestor", "visualizador"}

DomainTables == {"suppliers", "contracts", "documents", "obligations", "payments"}
UserTables == {"profiles", "user_roles", "notification_settings"}
TableNames == UserTables \cup DomainTables \cup {"audit_logs", "storage_objects"}
Cmds == {"SELECT", "INSERT", "UPDATE", "DELETE"}

Bucket == "contracts-documents"

\* column defaults of notification_settings
notification_defaults ==
    [email_enabled |-> TRUE, days_before_expiry |-> <<7, 15, 30>>, weekly_summary |-> TRUE]

VARIABLES
    authUsers,   \* auth.users: the identities that exist
    db,          \* table name -> set of rows
    session,     \* the browser's signed-in user and the role it resolved at load
    auth_uid,    \* auth.uid() of the statement that changed the tables last
                 \* (NullId: none yet, or the trigger)
    usersPage,   \* the state of the Users page while it is mounted
    page,        \* the state of the page mounted otherwise (forms, lists, audit)
    toast        \* the message shown by the step taken last (sonner)

EmptyDb == [t \in TableNames |-> {}]

(* ------------------------- rows and constraints ------------------------ *)
Ids(rows) == {r.id : r \in rows}

\* DEFAULT gen_random_uuid(): an id no row of the table carries.  The row of
\* a user takes the user's number when that is free, another row the smallest
\* free number.
NewId(rows, vals) ==
    IF "user_id" \in DOMAIN vals /\ vals.user_id # NullId /\ vals.user_id \notin Ids(rows)
    THEN vals.user_id
    ELSE CHOOSE i \in 1 .. (Cardinality(rows) + 1) :
            i \notin Ids(rows) /\ \A j \in 1 .. (i - 1) : j \in Ids(rows)

\* the columns a UNIQUE constraint of the table covers
UniqueKey(tbl, r) ==
    CASE tbl = "profiles" -> <<r.user_id>>
      [] tbl = "user_roles" -> <<r.user_id, r.role>>
      [] tbl = "notification_settings" -> <<r.user_id>>
      [] OTHER -> <<r.id>>

\* a table declared without its UNIQUE constraint
UniqueNotChecked(tbl, rows) == TRUE

UniqueOK(tbl, rows) ==
    \A r, q \in rows : (r.id # q.id) => UniqueKey(tbl, r) # UniqueKey(tbl, q)

\* REFERENCES ... and NOT NULL of each table, in database d with identities auth
ForeignKeysOK(d, auth, tbl) ==
    CASE tbl \in UserTables ->
            \A r \in d[tbl] : r.user_id \in auth
      [] tbl = "contracts" ->
            \A r \in d[tbl] : r.supplier_id = NullId \/ r.supplier_id \in Ids(d["suppliers"])
      [] tbl \in {"documents", "obligations", "payments"} ->
            \A r \in d[tbl] : r.contract_id \in Ids(d["contracts"])
      [] tbl = "audit_logs" ->
            \A r \in d[tbl] : r.user_id = NullId \/ r.user_id \in auth
      [] OTHER -> TRUE

NotNullOK(d, tbl) ==
    CASE tbl = "profiles" ->
            \A r \in d[tbl] : r.full_name # NullText /\ r.email # NullText
      [] OTHER -> TRUE

\* the constraints of the tables of tbls hold in database d
ConstraintsOK(d, auth, tbls) ==
    \A tbl \in tbls :
        UniqueOK(tbl, d[tbl]) /\ ForeignKeysOK(d, auth, tbl) /\ NotNullOK(d, tbl)

\* the tables whose rows reference tbl with no ON DELETE action
Referencing(tbl) ==
    IF tbl = "suppliers" THEN {"contracts"} ELSE {}

\* the three tables declared without ON DELETE CASCADE
CascadeNone(d) == d

\* ON DELETE CASCADE of documents, obligations and payments on contracts
Cascade(d) ==
    [tbl \in TableNames |->
        IF tbl \in {"documents", "obligations", "payments"}
        THEN {r \in d[tbl] : r.contract_id \in Ids(d["contracts"])}
        ELSE d[tbl]]

InsertRow(d, tbl, vals) ==
    [d EXCEPT ![tbl] = @ \cup {vals @@ [id |-> NewId(d[tbl], vals)]}]

\* UPDATE ... SET: the columns of vals replace those of the row
Assign(r, vals) ==
    [c \in DOMAIN r |-> IF c \in DOMAIN vals THEN vals[c] ELSE r[c]]

(* ------------------------------ roles ---------------------------------- *)
has_role(_user_id, _role) ==
    \E r \in db["user_roles"] : r.user_id = _user_id /\ r.role = _role

\* SELECT role ... LIMIT 1 has no ORDER BY: any of the user's rows may be
\* the one returned; no row gives NULL
get_user_role(_user_id) ==
    LET rs == {r.role : r \in {q \in db["user_roles"] : q.user_id = _user_id}}
    IN  IF rs = {} THEN {NullText} ELSE rs

RolesOf(u) == {r \in app_role : has_role(u, r)}

(* ----------------------- row-level security ---------------------------- *)
\* CREATE POLICY ... ON tbl FOR cmd TO authenticated USING / WITH CHECK (expr)
SourcePolicies ==
    {   [tbl |-> "profiles", cmd |-> "SELECT", expr |-> "true"],
        [tbl |-> "profiles", cmd |-> "UPDATE", expr |-> "own"],
        [tbl |-> "user_roles", cmd |-> "SELECT", expr |-> "true"],
        [tbl |-> "user_roles", cmd |-> "INSERT", expr |-> "admin"],
        [tbl |-> "user_roles", cmd |-> "UPDATE", expr |-> "admin"],
        [tbl |-> "user_roles", cmd |-> "DELETE", expr |-> "admin"],
        [tbl |-> "audit_logs", cmd |-> "SELECT", expr |-> "admin"],
        [tbl |-> "audit_logs", cmd |-> "INSERT", expr |-> "true"],
        [tbl |-> "notification_settings", cmd |-> "SELECT", expr |-> "own"],
        [tbl |-> "notification_settings", cmd |-> "UPDATE", expr |-> "own"],
        [tbl |-> "notification_settings", cmd |-> "INSERT", expr |-> "own"],
        [tbl |-> "storage_objects", cmd |-> "SELECT", expr |-> "bucket"],
        [tbl |-> "storage_objects", cmd |-> "INSERT", expr |-> "bucket_admin_or_gestor"],
        [tbl |-> "storage_objects", cmd |-> "DELETE", expr |-> "bucket_admin"] }
    \cup
    UNION { {   [tbl |-> t, cmd |-> "SELECT", expr |-> "true"],
                [tbl |-> t, cmd |-> "INSERT", expr |-> "admin_or_gestor"],
                [tbl |-> t, cmd |-> "UPDATE", expr |-> "admin_or_gestor"],
                [tbl |-> t, cmd |-> "DELETE", expr |-> "admin"] } : t \in DomainTables }

\* the policies with one of them replaced
Replace(old, new) == (SourcePolicies \ {old}) \cup {new}

\* notification settings readable by every authenticated user
PoliciesSettingsOpen ==
    Replace([tbl |-> "notification_settings", cmd |-> "SELECT", expr |-> "own"],
            [tbl |-> "notification_settings", cmd |-> "SELECT", expr |-> "true"])

\* delete on payments written like update
PoliciesDeleteLikeUpdate ==
    Replace([tbl |-> "payments", cmd |-> "DELETE", expr |-> "admin"],
            [tbl |-> "payments", cmd |-> "DELETE", expr |-> "admin_or_gestor"])

\* every authenticated user may update role rows
PoliciesRoleUpdateOpen ==
    Replace([tbl |-> "user_roles", cmd |-> "UPDATE", expr |-> "admin"],
            [tbl |-> "user_roles", cmd |-> "UPDATE", expr |-> "true"])

\* administrators may delete audit entries
PoliciesAuditDelete ==
    SourcePolicies \cup {[tbl |-> "audit_logs", cmd |-> "DELETE", expr |-> "admin"]}

\* every authenticated user may insert contracts
PoliciesContractInsertOpen ==
    Replace([tbl |-> "contracts", cmd |-> "INSERT", expr |-> "admin_or_gestor"],
            [tbl |-> "contracts", cmd |-> "INSERT", expr |-> "true"])

\* suppliers inserted by administrators only
PoliciesSupplierInsertAdmin ==
    Replace([tbl |-> "suppliers", cmd |-> "INSERT", expr |-> "admin_or_gestor"],
            [tbl |-> "suppliers", cmd |-> "INSERT", expr |-> "admin"])

\* the policies in force on the tables, all of them TO authenticated
Policies == SourcePolicies

\* the role test of a policy answered from the role the actor's session cached
CachedRole(uid, _role) ==
    IF uid = session.user_id THEN session.role = _role ELSE has_role(uid, _role)

PolicyExprFromSession(expr, uid, row) ==
    CASE expr = "true" -> TRUE
      [] expr = "own" -> uid = row.user_id
      [] expr = "admin" -> CachedRole(uid, "admin")
      [] expr = "admin_or_gestor" -> CachedRole(uid, "admin") \/ CachedRole(uid, "gestor")
      [] expr = "bucket" -> row.bucket_id = Bucket
      [] expr = "bucket_admin_or_gestor" ->
            row.bucket_id = Bucket /\ (CachedRole(uid, "admin") \/ CachedRole(uid, "gestor"))
      [] expr = "bucket_admin" -> row.bucket_id = Bucket /\ CachedRole(uid, "admin")

\* the USING / WITH CHECK expression of a policy, for actor uid (auth.uid()) on a row
PolicyExpr(expr, uid, row) ==
    CASE expr = "true" -> TRUE
      [] expr = "own" -> uid = row.user_id
      [] expr = "admin" -> has_role(uid, "admin")
      [] expr = "admin_or_gestor" -> has_role(uid, "admin") \/ has_role(uid, "gestor")
      [] expr = "bucket" -> row.bucket_id = Bucket
      [] expr = "bucket_admin_or_gestor" ->
            row.bucket_id = Bucket /\ (has_role(uid, "admin") \/ has_role(uid, "gestor"))
      [] expr = "bucket_admin" -> row.bucket_id = Bucket /\ has_role(uid, "admin")

\* the expressions of the policies of each table for each command
PolicyExprs ==
    [tbl \in TableNames, cmd \in Cmds |->
        {p.expr : p \in {q \in Policies : q.tbl = tbl /\ q.cmd = cmd}}]

\* ENABLE ROW LEVEL SECURITY: a command on a row is permitted when some policy
\* of the table for that command holds; with no policy it is denied
Permitted(uid, tbl, cmd, row) ==
    /\ uid \in authUsers
    /\ \E expr \in PolicyExprs[tbl, cmd] : PolicyExpr(expr, uid, row)

(* --------------------------- SQL statements ---------------------------- *)
\* an insert on a table that carries an audit trigger: the statement that
\* stores the row records it in audit_logs
SqlInsertAudited(uid, tbl, vals) ==
    LET d1 == InsertRow(db, tbl, vals)
        row == vals @@ [id |-> NewId(db[tbl], vals)]
        error == ~Permitted(uid, tbl, "INSERT", row) \/ ~ConstraintsOK(d1, authUsers, {tbl})
        entry == [user_id |-> uid, action |-> "INSERT", table_name |-> tbl]
    IN  [error |-> error, n |-> IF error THEN 0 ELSE 1,
         db |-> IF error THEN db ELSE InsertRow(d1, "audit_logs", entry)]

\* INSERT INTO tbl: the new row must pass the INSERT policy and the constraints
SqlInsert(uid, tbl, vals) ==
    LET d1 == InsertRow(db, tbl, vals)
        row == vals @@ [id |-> NewId(db[tbl], vals)]
        error == ~Permitted(uid, tbl, "INSERT", row) \/ ~ConstraintsOK(d1, authUsers, {tbl})
    IN  [error |-> error, n |-> IF error THEN 0 ELSE 1, db |-> IF error THEN db ELSE d1]

\* an update guarded by a version of the row: a row changed since it was
\* inserted (a contract no longer rascunho, a role no longer visualizador) is
\* left as the earlier writer stored it
SqlUpdateFirstWriteWins(uid, tbl, targets, vals) ==
    LET fresh(r) == CASE tbl = "contracts" -> r.status = "rascunho"
                      [] tbl = "user_roles" -> r.role = "visualizador"
                      [] OTHER -> TRUE
        hit == {r \in targets \cap db[tbl] :
                    /\ Permitted(uid, tbl, "SELECT", r) /\ Permitted(uid, tbl, "UPDATE", r)
                    /\ fresh(r)}
        news == {Assign(r, vals) : r \in hit}
        d1 == [db EXCEPT ![tbl] = (@ \ hit) \cup news]
        error == \/ \E n \in news : ~Permitted(uid, tbl, "UPDATE", n)
                 \/ ~ConstraintsOK(d1, authUsers, {tbl})
    IN  [error |-> error, n |-> IF error THEN 0 ELSE Cardinality(hit),
         db |-> IF error THEN db ELSE d1]

\* UPDATE tbl SET vals WHERE <targets>: rows the actor may not select or update
\* are skipped silently; a new row that fails the policy or a constraint is an error
SqlUpdate(uid, tbl, targets, vals) ==
    LET hit == {r \in targets \cap db[tbl] :
                    Permitted(uid, tbl, "SELECT", r) /\ Permitted(uid, tbl, "UPDATE", r)}
        news == {Assign(r, vals) : r \in hit}
        d1 == [db EXCEPT ![tbl] = (@ \ hit) \cup news]
        error == \/ \E n \in news : ~Permitted(uid, tbl, "UPDATE", n)
                 \/ ~ConstraintsOK(d1, authUsers, {tbl})
    IN  [error |-> error, n |-> IF error THEN 0 ELSE Cardinality(hit),
         db |-> IF error THEN db ELSE d1]

\* DELETE FROM tbl WHERE <targets>: rows the actor may not select or delete are
\* skipped silently; a row still referenced (no ON DELETE action) is an error
SqlDelete(uid, tbl, targets) ==
    LET hit == {r \in targets \cap db[tbl] :
                    Permitted(uid, tbl, "SELECT", r) /\ Permitted(uid, tbl, "DELETE", r)}
        d1 == Cascade([db EXCEPT ![tbl] = @ \ hit])
        error == ~ConstraintsOK(d1, authUsers, Referencing(tbl))
    IN  [error |-> error, n |-> IF error THEN 0 ELSE Cardinality(hit),
         db |-> IF error THEN db ELSE d1]

(* ------------------------- signup provisioning ------------------------- *)
\* the function with each insert committed on its own: an error keeps the
\* inserts made before it
handle_new_user_no_rollback(d, auth, new_user, fault) ==
    LET d1 == InsertRow(d, "profiles",
                  [user_id |-> new_user.id,
                   full_name |-> IF new_user.full_name = NullText THEN "" ELSE new_user.full_name,
                   email |-> new_user.email])
        e1 == fault = 1 \/ ~ConstraintsOK(d1, auth, {"profiles"})
        d2 == InsertRow(d1, "user_roles", [user_id |-> new_user.id, role |-> "visualizador"])
        e2 == fault = 2 \/ ~ConstraintsOK(d2, auth, {"user_roles"})
        d3 == InsertRow(d2, "notification_settings",
                  [user_id |-> new_user.id] @@ notification_defaults)
        e3 == fault = 3 \/ ~ConstraintsOK(d3, auth, {"notification_settings"})
    IN  [raised |-> e1 \/ e2 \/ e3,
         db |-> IF e1 THEN d ELSE IF e2 THEN d1 ELSE IF e3 THEN d2 ELSE d3]

\* the function without its third insert
handle_new_user_no_settings(d, auth, new_user, fault) ==
    LET d1 == InsertRow(d, "profiles",
                  [user_id |-> new_user.id,
                   full_name |-> IF new_user.full_name = NullText THEN "" ELSE new_user.full_name,
                   email |-> new_user.email])
        e1 == fault = 1 \/ ~ConstraintsOK(d1, auth, {"profiles"})
        d2 == InsertRow(d1, "user_roles", [user_id |-> new_user.id, role |-> "visualizador"])
        e2 == fault = 2 \/ ~ConstraintsOK(d2, auth, {"user_roles"})
        raised == e1 \/ e2 \/ fault = 3
    IN  [raised |-> raised, db |-> IF raised THEN d ELSE d2]

\* The trigger function, run for the auth.users row new_user in database d.  It is
\* SECURITY DEFINER (no policy applies); statement number `fault` raises a
\* runtime error (0: none does).  An exception in the function aborts the
\* transaction of the INSERT that fired it, so no insert of it persists.
handle_new_user(d, auth, new_user, fault) ==
    LET d1 == InsertRow(d, "profiles",
                  [user_id |-> new_user.id,
                   full_name |-> IF new_user.full_name = NullText THEN "" ELSE new_user.full_name,
                   email |-> new_user.email])
        e1 == fault = 1 \/ ~ConstraintsOK(d1, auth, {"profiles"})
        d2 == InsertRow(d1, "user_roles", [user_id |-> new_user.id, role |-> "visualizador"])
        e2 == fault = 2 \/ ~ConstraintsOK(d2, auth, {"user_roles"})
        d3 == InsertRow(d2, "notification_settings",
                  [user_id |-> new_user.id] @@ notification_defaults)
        e3 == fault = 3 \/ ~ConstraintsOK(d3, auth, {"notification_settings"})
        raised == e1 \/ e2 \/ e3
    IN  [raised |-> raised, db |-> IF raised THEN d ELSE d3]

(* ------------------------------- state --------------------------------- *)
DomainRows(d) ==
    Cardinality(d["suppliers"]) + Cardinality(d["contracts"]) + Cardinality(d["documents"])
    + Cardinality(d["obligations"]) + Cardinality(d["payments"])
    + Cardinality(d["storage_objects"])

\* room for one more row of tbl
Room(tbl) ==
    CASE tbl = "user_roles" -> Cardinality(db[tbl]) < MaxRoleRows
      [] tbl = "audit_logs" -> Cardinality(db[tbl]) < MaxAudit
      [] tbl \in UserTables -> Cardinality(db[tbl]) <= MaxUsers
      [] OTHER -> DomainRows(db) < MaxRows

\* The database after the migration: every table empty.  The first
\* administrator is not created by the application (signup gives
\* visualizador): the installation either has none yet, or identity 1 was
\* promoted by the database owner.
SeedAdmin ==
    [EmptyDb EXCEPT
        !["profiles"] = {[id |-> 1, user_id |-> 1, full_name |-> "Admin", email |-> "admin"]},
        !["user_roles"] = {[id |-> 1, user_id |-> 1, role |-> "admin"]},
        !["notification_settings"] = {[id |-> 1, user_id |-> 1] @@ notification_defaults}]

BackendInit ==
    \/ authUsers = {} /\ db = EmptyDb
    \/ authUsers = {1} /\ db = SeedAdmin

\* the full_name of the metadata identity u signs up with: every second
\* identity signs up without one
raw_user_meta_data(u) == IF u % 2 = 0 THEN NullText ELSE "Ana"

\* AFTER INSERT ON auth.users: a signup inserts the identity and provisions it;
\* identities are numbered in the order they sign up
Signup(u, email, full_name, fault) ==
    /\ u \notin authUsers /\ \A v \in Users : v < u => v \in authUsers
    /\ LET new_user == [id |-> u, email |-> email, full_name |-> full_name]
           res == handle_new_user(db, authUsers \cup {u}, new_user, fault)
       IN  /\ db' = res.db
           /\ authUsers' = IF res.raised THEN authUsers ELSE authUsers \cup {u}

\* provisioning run again for an identity that exists
ReProvision(u, full_name, fault) ==
    /\ u \in authUsers
    /\ LET new_user == [id |-> u, email |-> "mail", full_name |-> full_name]
           res == handle_new_user(db, authUsers, new_user, fault)
       IN  db' = res.db
    /\ UNCHANGED authUsers

\* the contract a request may name: none (NULL), one that may exist, one that
\* does not
ContractRefs == NullId .. MaxRows

\* the values a request may carry for a new row of tbl
InsertValues(uid, tbl) ==
    CASE tbl = "profiles" ->
            {[user_id |-> uid, full_name |-> "Bia", email |-> "mail"]}
      [] tbl = "user_roles" ->
            {[user_id |-> u, role |-> r] : u \in authUsers, r \in app_role}
      [] tbl = "notification_settings" ->
            {[user_id |-> u] @@ notification_defaults : u \in authUsers}
      [] tbl = "suppliers" ->
            {[is_active |-> TRUE]}
      [] tbl = "contracts" ->
            {[supplier_id |-> s, status |-> "rascunho"] : s \in 0 .. 1}
      [] tbl = "documents" ->
            {[contract_id |-> c, file_path |-> "path"] : c \in ContractRefs}
      [] tbl = "obligations" ->
            {[contract_id |-> c, status |-> "pendente"] : c \in ContractRefs}
      [] tbl = "payments" ->
            {[contract_id |-> c, status |-> "pendente", payment_date |-> NullText] : c \in ContractRefs}
      [] tbl = "audit_logs" ->
            {[user_id |-> a, action |-> "INSERT", table_name |-> "contracts"] : a \in {NullId, uid}}
      [] tbl = "storage_objects" ->
            {[bucket_id |-> Bucket, name |-> "path"]}

\* the column assignments a request may carry for an update of tbl
UpdateValues(uid, tbl) ==
    CASE tbl = "profiles" -> {[full_name |-> "Bia"]}
      [] tbl = "user_roles" -> {[role |-> r] : r \in app_role}
      [] tbl = "notification_settings" -> {[email_enabled |-> FALSE]}
      [] tbl = "suppliers" -> {[is_active |-> FALSE]}
      [] tbl = "contracts" -> {[status |-> "ativo"]}
      [] tbl = "documents" -> {[file_path |-> "moved"]}
      [] tbl = "obligations" -> {[status |-> "concluido"]}
      [] tbl = "payments" -> {[status |-> "pago", payment_date |-> "today"]}
      [] tbl = "audit_logs" -> {[action |-> "DELETE"]}
      [] tbl = "storage_objects" -> {[name |-> "moved"]}

\* a request sent to the backend's query interface by an authenticated actor
ApiInsert(uid, tbl, vals) ==
    /\ uid \in authUsers /\ Room(tbl)
    /\ LET res == SqlInsert(uid, tbl, vals)
       IN  db' = res.db
    /\ UNCHANGED authUsers

ApiUpdate(uid, tbl, row, vals) ==
    /\ uid \in authUsers /\ row \in db[tbl]
    /\ LET res == SqlUpdate(uid, tbl, {row}, vals)
       IN  db' = res.db
    /\ UNCHANGED authUsers

ApiDelete(uid, tbl, row) ==
    /\ uid \in authUsers /\ row \in db[tbl]
    /\ LET res == SqlDelete(uid, tbl, {row})
       IN  db' = res.db
    /\ UNCHANGED authUsers

(* ------------------------------ session -------------------------------- *)
\* no message is shown
NoToast == [type |-> "none", message |-> ""]

\* toast.error(message) and toast.success(message)
toast_error(message) == [type |-> "error", message |-> message]

toast_success(message) == [type |-> "success", message |-> message]

\* no page beside the Users page is mounted
NoPage == [name |-> "none"]

NoSession == [user_id |-> NullId, role |-> NullText]

\* edit capability given to administrators only
canEditAdminOnly(role) == role = "admin"

\* the capability flags the session derives from its role
canEdit(role) == role \in {"admin", "gestor"}

isAdmin(role) == role = "admin"

\* the label of the role in the sidebar
getRoleBadge(role) ==
    CASE role = "admin" -> "Administrador"
      [] role = "gestor" -> "Gestor"
      [] OTHER -> "Visualizador"

\* the role a session resolves: that of a role row of the user, visualizador
\* when the user has none, no role when the query fails
ResolvedRoles(u) ==
    {IF r = NullText THEN "visualizador" ELSE r : r \in get_user_role(u)} \cup {NullText}

SignIn(u) ==
    /\ u \in authUsers /\ session = NoSession
    /\ \E r \in ResolvedRoles(u) : session' = [user_id |-> u, role |-> r]
    /\ toast' = NoToast
    /\ UNCHANGED <<authUsers, db, auth_uid, usersPage, page>>

\* selectedUser = null
NoUser == [user_id |-> NullId, role |-> NullText]

\* no update of user_roles is in flight
NoRequest == [actor |-> NullId, target |-> NullId, error |-> FALSE]

\* useState(...) of UsersPage; the page not mounted holds no other state
UsersPageInit ==
    [mounted |-> FALSE, users |-> {}, selectedUser |-> NoUser, newRole |-> "",
     isDialogOpen |-> FALSE, updating |-> FALSE, request |-> NoRequest]

\* with the session gone isAdmin is false and the effect of UsersPage
\* navigates away from the page
SignOut ==
    /\ session # NoSession
    /\ session' = NoSession
    /\ usersPage' = UsersPageInit
    /\ page' = NoPage
    /\ toast' = NoToast
    /\ UNCHANGED <<authUsers, db, auth_uid>>

Init ==
    /\ BackendInit
    /\ session = NoSession
    /\ auth_uid = NullId
    /\ usersPage = UsersPageInit
    /\ page = NoPage
    /\ toast = NoToast

\* a step of the backend: the browser keeps its state and shows no message
Backend == toast' = NoToast /\ UNCHANGED <<session, usersPage, page>>

\* a request of actor uid on table tbl
RequestStep(uid, tbl) ==
    \/ \E vals \in InsertValues(uid, tbl) : ApiInsert(uid, tbl, vals)
    \/ \E row \in db[tbl], vals \in UpdateValues(uid, tbl) : ApiUpdate(uid, tbl, row, vals)
    \/ \E row \in db[tbl] : ApiDelete(uid, tbl, row)

vars == <<authUsers, db, session, auth_uid, usersPage, page, toast>>

\* signups and role changes, seen at the backend
IdentityNext ==
    \/ \E u \in Users :
          Signup(u, "mail", raw_user_meta_data(u), 0) /\ Backend /\ UNCHANGED auth_uid
    \/ \E uid \in Users, row \in db["user_roles"] :
          \E vals \in UpdateValues(uid, "user_roles") :
              ApiUpdate(uid, "user_roles", row, vals) /\ Backend /\ UNCHANGED auth_uid

\* the same, with requests on the domain tables
Next ==
    \/ IdentityNext
    \/ \E uid \in Users, tbl \in DomainTables :
          RequestStep(uid, tbl) /\ Backend /\ UNCHANGED auth_uid

Spec == Init /\ [][Next]_vars

\* auth.uid() of a statement is kept when the statement changed a table
Logged(uid) == auth_uid' = IF db' = db THEN auth_uid ELSE uid

\* the requests authenticated actors may send on the tables of tbls
Requests(tbls) ==
    /\ \E uid \in Users, tbl \in tbls : RequestStep(uid, tbl) /\ Logged(uid)
    /\ Backend

NewUser(u, email, full_name, fault) ==
    Signup(u, email, full_name, fault) /\ Logged(NullId) /\ Backend

\* signups, repeated provisioning and requests on user_roles
ProvisionNext ==
    \/ \E u \in Users, email \in {NullText, "mail"}, fault \in 0 .. 3 :
          NewUser(u, email, raw_user_meta_data(u), fault)
    \/ \E u \in Users, fault \in 0 .. 3 :
          ReProvision(u, raw_user_meta_data(u), fault) /\ Logged(NullId) /\ Backend
    \/ Requests({"user_roles"})

SpecProvision == Init /\ [][ProvisionNext]_vars

\* a role change: an update of a user_roles row
RoleUpdate ==
    /\ \E uid \in Users, row \in db["user_roles"] :
          \E vals \in UpdateValues(uid, "user_roles") :
              ApiUpdate(uid, "user_roles", row, vals) /\ Logged(uid)
    /\ Backend

\* signups, role changes and sign-in and sign-out of the browser
LoginNext ==
    \/ \E u \in Users : NewUser(u, "mail", raw_user_meta_data(u), 0)
    \/ RoleUpdate
    \/ \E u \in Users : SignIn(u)
    \/ SignOut

SpecLogin == Init /\ [][LoginNext]_vars

\* the same, with requests on the domain tables
SessionNext ==
    \/ LoginNext
    \/ Requests(DomainTables)

SpecSession == Init /\ [][SessionNext]_vars

\* signups, role changes and requests on audit_logs
AuditNext ==
    \/ \E u \in Users : NewUser(u, "mail", raw_user_meta_data(u), 0)
    \/ RoleUpdate
    \/ Requests({"audit_logs"})

SpecAudit == Init /\ [][AuditNext]_vars

(* ----------------------------- Users page ------------------------------ *)
\* SELECT * FROM tbl: the rows the policies let the actor see
SqlSelect(uid, tbl) == {r \in db[tbl] : Permitted(uid, tbl, "SELECT", r)}

\* the fallback for a user without a role row gives the administrator's role
fetchUsersFallbackAdmin(uid) ==
    LET profiles == SqlSelect(uid, "profiles")
        roles == SqlSelect(uid, "user_roles")
        found(u) == {r.role : r \in {q \in roles : q.user_id = u}}
        listed(u) == IF found(u) = {} THEN {"admin"} ELSE found(u)
        ids == {p.user_id : p \in profiles}
    IN  {{[user_id |-> u, role |-> f[u]] : u \in ids} :
            f \in {g \in [ids -> app_role] : \A u \in ids : g[u] \in listed(u)}}

\* the lists fetchUsers may build: every profile with the role of the first
\* role row found for its user, visualizador when there is none
fetchUsers(uid) ==
    LET profiles == SqlSelect(uid, "profiles")
        roles == SqlSelect(uid, "user_roles")
        found(u) == {r.role : r \in {q \in roles : q.user_id = u}}
        listed(u) == IF found(u) = {} THEN {"visualizador"} ELSE found(u)
        ids == {p.user_id : p \in profiles}
    IN  {{[user_id |-> u, role |-> f[u]] : u \in ids} :
            f \in {g \in [ids -> app_role] : \A u \in ids : g[u] \in listed(u)}}

\* the row offered is never taken for the acting user's own
NeverSelf(userToEdit, user_id) == FALSE

\* userToEdit.user_id === user?.id
IsSelf(userToEdit, user_id) == userToEdit.user_id = user_id

\* the page is opened, from a page that holds no state: a session that is not
\* isAdmin is sent to the dashboard, another one loads the list
MountUsersPage ==
    /\ session # NoSession /\ ~usersPage.mounted /\ page = NoPage
    /\ IF isAdmin(session.role)
       THEN \/ \E list \in fetchUsers(session.user_id) :
                /\ usersPage' = [UsersPageInit EXCEPT !.mounted = TRUE, !.users = list]
                /\ toast' = NoToast
            \/ /\ usersPage' = [UsersPageInit EXCEPT !.mounted = TRUE]
               /\ toast' = toast_error("Erro ao carregar usuarios")
       ELSE /\ UNCHANGED usersPage
            /\ toast' = toast_error("Acesso negado")
    /\ UNCHANGED <<authUsers, db, session, auth_uid, page>>

\* navigation to another page
LeaveUsersPage ==
    /\ usersPage.mounted
    /\ usersPage' = UsersPageInit
    /\ toast' = NoToast
    /\ UNCHANGED <<authUsers, db, session, auth_uid, page>>

openRoleDialog(userToEdit) ==
    /\ usersPage.mounted /\ userToEdit \in usersPage.users
    /\ IF IsSelf(userToEdit, session.user_id)
       THEN /\ UNCHANGED usersPage
            /\ toast' = toast_error("Voce nao pode alterar sua propria permissao")
       ELSE /\ usersPage' = [usersPage EXCEPT !.selectedUser = userToEdit,
                                              !.newRole = userToEdit.role,
                                              !.isDialogOpen = TRUE]
            /\ toast' = NoToast
    /\ UNCHANGED <<authUsers, db, session, auth_uid, page>>

\* the role chosen in the dialog
setNewRole(v) ==
    /\ usersPage.mounted /\ usersPage.isDialogOpen
    /\ usersPage' = [usersPage EXCEPT !.newRole = v]
    /\ toast' = NoToast
    /\ UNCHANGED <<authUsers, db, session, auth_uid, page>>

\* Cancelar, or the dialog dismissed
setIsDialogOpen(open) ==
    /\ usersPage.mounted /\ usersPage.isDialogOpen
    /\ usersPage' = [usersPage EXCEPT !.isDialogOpen = open]
    /\ toast' = NoToast
    /\ UNCHANGED <<authUsers, db, session, auth_uid, page>>

\* Salvar written as the grant of one more role: a row with the role chosen
\* is inserted beside the rows the user has
handleRoleChangeInsert(failed) ==
    /\ usersPage.mounted /\ usersPage.isDialogOpen /\ ~usersPage.updating
    /\ usersPage.selectedUser # NoUser /\ usersPage.newRole # ""
    /\ LET target == usersPage.selectedUser.user_id
           res == SqlInsert(session.user_id, "user_roles",
                            [user_id |-> target, role |-> usersPage.newRole])
       IN  /\ db' = IF failed THEN db ELSE res.db
           /\ usersPage' = [usersPage EXCEPT
                  !.updating = TRUE,
                  !.request = [actor |-> session.user_id, target |-> target,
                               error |-> failed \/ res.error]]
    /\ toast' = NoToast
    /\ UNCHANGED <<authUsers, session, auth_uid, page>>

\* Salvar: the update of the rows of the selected user is sent and evaluated
\* (failed: the request does not reach the backend)
handleRoleChange(failed) ==
    /\ usersPage.mounted /\ usersPage.isDialogOpen /\ ~usersPage.updating
    /\ usersPage.selectedUser # NoUser /\ usersPage.newRole # ""
    /\ LET target == usersPage.selectedUser.user_id
           res == SqlUpdate(session.user_id, "user_roles",
                            {r \in db["user_roles"] : r.user_id = target},
                            [role |-> usersPage.newRole])
       IN  /\ db' = IF failed THEN db ELSE res.db
           /\ usersPage' = [usersPage EXCEPT
                  !.updating = TRUE,
                  !.request = [actor |-> session.user_id, target |-> target,
                               error |-> failed \/ res.error]]
    /\ toast' = NoToast
    /\ UNCHANGED <<authUsers, session, auth_uid, page>>

\* the answer to the update: on success the dialog is closed and the list
\* loaded again
RoleChangeAnswered ==
    /\ usersPage.mounted /\ usersPage.updating
    /\ IF usersPage.request.error
       THEN /\ usersPage' = [usersPage EXCEPT !.updating = FALSE, !.request = NoRequest]
            /\ toast' = toast_error("Erro ao atualizar permissao")
       ELSE LET closed == [usersPage EXCEPT
                              !.isDialogOpen = FALSE, !.selectedUser = NoUser, !.newRole = "",
                              !.updating = FALSE, !.request = NoRequest]
            IN  \/ \E list \in fetchUsers(session.user_id) :
                     /\ usersPage' = [closed EXCEPT !.users = list]
                     /\ toast' = toast_success("Permissao atualizada")
                \/ /\ usersPage' = closed
                   /\ toast' = toast_error("Erro ao carregar usuarios")
    /\ UNCHANGED <<authUsers, db, session, auth_uid, page>>

\* sign-in and sign-out, and the Users page
UsersPageNext ==
    \/ \E u \in Users : SignIn(u)
    \/ SignOut
    \/ MountUsersPage
    \/ LeaveUsersPage
    \/ \E userToEdit \in usersPage.users : openRoleDialog(userToEdit)
    \/ \E v \in app_role : setNewRole(v)
    \/ setIsDialogOpen(FALSE)
    \/ \E failed \in BOOLEAN : handleRoleChange(failed)
    \/ RoleChangeAnswered

\* the same, with signups and role changes by other clients
UsersNext ==
    \/ IdentityNext
    \/ UsersPageNext

SpecUsers == Init /\ [][UsersNext]_vars

\* sign-in and sign-out and the Users page, with signups and the requests
\* authenticated actors may send on user_roles
RolesNext ==
    \/ UsersPageNext
    \/ \E u \in Users :
          Signup(u, "mail", raw_user_meta_data(u), 0) /\ Backend /\ UNCHANGED auth_uid
    \/ \E uid \in Users :
          RequestStep(uid, "user_roles") /\ Backend /\ UNCHANGED auth_uid

SpecRoles == Init /\ [][RolesNext]_vars

(* -------------------------- backend answers ---------------------------- *)
\* no request is in flight
NoResponse == [kind |-> "none", message |-> ""]

\* { error: null }
Ok == [kind |-> "ok", message |-> ""]

\* the ways a request fails: rejected by a policy, rejected by a constraint of
\* the table, backend not reached
FailureKinds == {"rls", "constraint", "network"}

\* error.message of each
ErrorMessage(kind) ==
    CASE kind = "rls" -> "new row violates row-level security policy"
      [] kind = "constraint" -> "violates foreign key constraint"
      [] kind = "network" -> "Failed to fetch"

\* { error }
Failure(kind) == [kind |-> kind, message |-> ErrorMessage(kind)]

\* supabase.from(tbl).insert(vals) by the session's user
InsertRequest(tbl, vals, unreachable) ==
    LET res == SqlInsert(session.user_id, tbl, vals)
        row == vals @@ [id |-> NewId(db[tbl], vals)]
    IN  [db |-> IF unreachable THEN db ELSE res.db,
         response |-> IF unreachable THEN Failure("network")
                      ELSE IF ~res.error THEN Ok
                      ELSE IF ~Permitted(session.user_id, tbl, "INSERT", row) THEN Failure("rls")
                      ELSE Failure("constraint")]

\* supabase.from(tbl).update(vals).eq("id", id) by the session's user
UpdateRequest(tbl, id, vals, unreachable) ==
    LET targets == {r \in db[tbl] : r.id = id}
        res == SqlUpdate(session.user_id, tbl, targets, vals)
    IN  [db |-> IF unreachable THEN db ELSE res.db,
         response |-> IF unreachable THEN Failure("network")
                      ELSE IF ~res.error THEN Ok
                      ELSE IF \E r \in targets :
                                  ~Permitted(session.user_id, tbl, "UPDATE", Assign(r, vals))
                           THEN Failure("rls")
                      ELSE Failure("constraint")]

(* ----------------------- supplier and contract forms ------------------- *)
\* a list page: /fornecedores, /contratos
ListPage(name) == [name |-> name]

\* navigation away from the page mounted
LeavePage ==
    /\ page # NoPage
    /\ page' = NoPage
    /\ toast' = NoToast
    /\ UNCHANGED <<authUsers, db, session, auth_uid, usersPage>>

\* supplierSchema.safeParse(formData).success: the name is required
supplierSchema(formData) == formData.name # ""

\* useState of SupplierForm at mode novo, ver or editar of the path
SupplierFormPage(mode, id) ==
    [name |-> "SupplierForm", mode |-> mode, id |-> id,
     formData |-> [name |-> "", is_active |-> TRUE],
     saving |-> FALSE, response |-> NoResponse]

\* /fornecedores/novo
NewSupplierForm ==
    /\ session # NoSession /\ ~usersPage.mounted
    /\ page' = SupplierFormPage("novo", NullId)
    /\ toast' = NoToast
    /\ UNCHANGED <<authUsers, db, session, auth_uid, usersPage>>

\* /fornecedores/:id and /fornecedores/:id/editar: fetchSupplier loads the row,
\* or fails (no such row, backend not reached) and goes to the list
fetchSupplier(mode, id, unreachable) ==
    /\ session # NoSession /\ ~usersPage.mounted
    /\ LET found == {r \in SqlSelect(session.user_id, "suppliers") : r.id = id}
       IN  IF unreachable \/ found = {}
           THEN /\ page' = ListPage("Suppliers")
                /\ toast' = toast_error("Erro ao carregar fornecedor")
           ELSE /\ \E data \in found :
                      page' = [SupplierFormPage(mode, id) EXCEPT
                                  !.formData = [name |-> "Acme", is_active |-> data.is_active]]
                /\ toast' = NoToast
    /\ UNCHANGED <<authUsers, db, session, auth_uid, usersPage>>

\* handleChange(field, value) of SupplierForm
SupplierForm_handleChange(formData) ==
    /\ page.name = "SupplierForm" /\ page.mode # "ver"
    /\ formData # page.formData
    /\ page' = [page EXCEPT !.formData = formData]
    /\ toast' = NoToast
    /\ UNCHANGED <<authUsers, db, session, auth_uid, usersPage>>

\* handleSubmit of SupplierForm up to the answer of the backend: the guard on
\* canEdit, the validation, setSaving(true), the insert or the update
SupplierForm_handleSubmit(unreachable) ==
    /\ page.name = "SupplierForm" /\ page.mode # "ver" /\ ~page.saving
    /\ page.mode = "novo" => Room("suppliers")
    /\ IF ~canEdit(session.role)
       THEN /\ toast' = toast_error("Voce nao tem permissao para esta acao")
            /\ UNCHANGED <<db, page>>
       ELSE IF ~supplierSchema(page.formData)
       THEN /\ toast' = toast_error("Dados invalidos")
            /\ UNCHANGED <<db, page>>
       ELSE LET supplierData == [is_active |-> page.formData.is_active]
                req == IF page.mode = "novo"
                       THEN InsertRequest("suppliers", supplierData, unreachable)
                       ELSE UpdateRequest("suppliers", page.id, supplierData, unreachable)
            IN  /\ db' = req.db
                /\ page' = [page EXCEPT !.saving = TRUE, !.response = req.response]
                /\ toast' = NoToast
    /\ UNCHANGED <<authUsers, session, auth_uid, usersPage>>

\* the page and the message after the answer: success goes to the list, an
\* error keeps the form; finally setSaving(false)
SupplierForm_answer(p, response) ==
    IF response.kind = "ok"
    THEN [page |-> ListPage("Suppliers"),
          toast |-> toast_success(IF p.mode = "novo" THEN "Fornecedor criado com sucesso!"
                                  ELSE "Fornecedor atualizado com sucesso!")]
    ELSE [page |-> [p EXCEPT !.saving = FALSE, !.response = NoResponse],
          toast |-> toast_error("Erro ao salvar fornecedor. Tente novamente.")]

\* handleSubmit of SupplierForm from the answer of the backend on
SupplierForm_answered ==
    /\ page.name = "SupplierForm" /\ page.saving
    /\ LET a == SupplierForm_answer(page, page.response)
       IN  page' = a.page /\ toast' = a.toast
    /\ UNCHANGED <<authUsers, db, session, auth_uid, usersPage>>

\* contractSchema.safeParse(formData).success: the title is required
contractSchema(formData) == formData.title # ""

\* useState of ContractForm at mode novo, ver or editar of the path
ContractFormPage(mode, id) ==
    [name |-> "ContractForm", mode |-> mode, id |-> id,
     formData |-> [title |-> "", status |-> "rascunho", supplier_id |-> NullId],
     suppliers |-> {}, documents |-> {}, saving |-> FALSE, response |-> NoResponse]

\* the lists fetchSuppliers of ContractForm may set: the active suppliers, or
\* none when the query fails
ContractForm_fetchSuppliers ==
    {{}, {r.id : r \in {q \in SqlSelect(session.user_id, "suppliers") : q.is_active}}}

\* the lists fetchDocuments of the card of contract id may set: its documents,
\* or none when the query fails
fetchDocuments(id) ==
    {{}, {r \in SqlSelect(session.user_id, "documents") : r.contract_id = id}}

\* /contratos/novo
NewContractForm ==
    /\ session # NoSession /\ ~usersPage.mounted
    /\ \E suppliers \in ContractForm_fetchSuppliers :
          page' = [ContractFormPage("novo", NullId) EXCEPT !.suppliers = suppliers]
    /\ toast' = NoToast
    /\ UNCHANGED <<authUsers, db, session, auth_uid, usersPage>>

\* /contratos/:id and /contratos/:id/editar: fetchContract loads the row, or
\* fails (no such row, backend not reached) and goes to the list
fetchContract(mode, id, unreachable) ==
    /\ session # NoSession /\ ~usersPage.mounted
    /\ LET found == {r \in SqlSelect(session.user_id, "contracts") : r.id = id}
       IN  IF unreachable \/ found = {}
           THEN /\ page' = ListPage("Contracts")
                /\ toast' = toast_error("Erro ao carregar contrato")
           ELSE /\ \E data \in found, suppliers \in ContractForm_fetchSuppliers,
                     documents \in fetchDocuments(id) :
                      page' = [ContractFormPage(mode, id) EXCEPT
                                  !.formData = [title |-> "Obra", status |-> data.status,
                                                supplier_id |-> data.supplier_id],
                                  !.suppliers = suppliers, !.documents = documents]
                /\ toast' = NoToast
    /\ UNCHANGED <<authUsers, db, session, auth_uid, usersPage>>

\* handleChange(field, value) of ContractForm
ContractForm_handleChange(formData) ==
    /\ page.name = "ContractForm" /\ page.mode # "ver"
    /\ formData # page.formData
    /\ formData.supplier_id \in page.suppliers \cup {NullId}
    /\ page' = [page EXCEPT !.formData = formData]
    /\ toast' = NoToast
    /\ UNCHANGED <<authUsers, db, session, auth_uid, usersPage>>

\* handleSubmit written without the test of canEdit
ContractForm_handleSubmitUnguarded(unreachable) ==
    /\ page.name = "ContractForm" /\ page.mode # "ver" /\ ~page.saving
    /\ page.mode = "novo" => Room("contracts")
    /\ IF ~contractSchema(page.formData)
       THEN /\ toast' = toast_error("Dados invalidos")
            /\ UNCHANGED <<db, page>>
       ELSE LET contractData == [supplier_id |-> page.formData.supplier_id,
                                 status |-> page.formData.status]
                req == IF page.mode = "novo"
                       THEN InsertRequest("contracts", contractData, unreachable)
                       ELSE UpdateRequest("contracts", page.id, contractData, unreachable)
            IN  /\ db' = req.db
                /\ page' = [page EXCEPT !.saving = TRUE, !.response = req.response]
                /\ toast' = NoToast
    /\ UNCHANGED <<authUsers, session, auth_uid, usersPage>>

\* handleSubmit of ContractForm up to the answer of the backend: the guard on
\* canEdit, the validation, setSaving(true), the insert or the update
ContractForm_handleSubmit(unreachable) ==
    /\ page.name = "ContractForm" /\ page.mode # "ver" /\ ~page.saving
    /\ page.mode = "novo" => Room("contracts")
    /\ IF ~canEdit(session.role)
       THEN /\ toast' = toast_error("Voce nao tem permissao para esta acao")
            /\ UNCHANGED <<db, page>>
       ELSE IF ~contractSchema(page.formData)
       THEN /\ toast' = toast_error("Dados invalidos")
            /\ UNCHANGED <<db, page>>
       ELSE LET contractData == [supplier_id |-> page.formData.supplier_id,
                                 status |-> page.formData.status]
                req == IF page.mode = "novo"
                       THEN InsertRequest("contracts", contractData, unreachable)
                       ELSE UpdateRequest("contracts", page.id, contractData, unreachable)
            IN  /\ db' = req.db
                /\ page' = [page EXCEPT !.saving = TRUE, !.response = req.response]
                /\ toast' = NoToast
    /\ UNCHANGED <<authUsers, session, auth_uid, usersPage>>

\* the page and the message after the answer: success goes to the list, an
\* error keeps the form; finally setSaving(false)
ContractForm_answer(p, response) ==
    IF response.kind = "ok"
    THEN [page |-> ListPage("Contracts"),
          toast |-> toast_success(IF p.mode = "novo" THEN "Contrato criado com sucesso!"
                                  ELSE "Contrato atualizado com sucesso!")]
    ELSE [page |-> [p EXCEPT !.saving = FALSE, !.response = NoResponse],
          toast |-> toast_error("Erro ao salvar contrato. Tente novamente.")]

\* handleSubmit of ContractForm from the answer of the backend on
ContractForm_answered ==
    /\ page.name = "ContractForm" /\ page.saving
    /\ LET a == ContractForm_answer(page, page.response)
       IN  page' = a.page /\ toast' = a.toast
    /\ UNCHANGED <<authUsers, db, session, auth_uid, usersPage>>

(* ---------------------- payments and obligations ----------------------- *)
\* the ids fetchContracts of the two pages loads: the contracts that are ativo
ActiveContracts ==
    {r.id : r \in {q \in SqlSelect(session.user_id, "contracts") : q.status = "ativo"}}

\* useState of Payments
PaymentsPage ==
    [name |-> "Payments", payments |-> {}, contracts |-> {},
     formData |-> [contract_id |-> NullId, amount |-> ""],
     isDialogOpen |-> FALSE, saving |-> FALSE, response |-> NoResponse]

\* /pagamentos: fetchPayments and fetchContracts set the lists, or leave them
\* empty when the backend is not reached
MountPayments(unreachable) ==
    /\ session # NoSession /\ ~usersPage.mounted
    /\ page' = IF unreachable THEN PaymentsPage
               ELSE [PaymentsPage EXCEPT !.payments = SqlSelect(session.user_id, "payments"),
                                         !.contracts = ActiveContracts]
    /\ toast' = NoToast
    /\ UNCHANGED <<authUsers, db, session, auth_uid, usersPage>>

\* Novo Pagamento is rendered under canEdit; Cancelar and the dialog's
\* onOpenChange close it
Payments_setIsDialogOpen(open) ==
    /\ page.name = "Payments" /\ page.isDialogOpen # open
    /\ open => canEdit(session.role)
    /\ page' = [page EXCEPT !.isDialogOpen = open]
    /\ toast' = NoToast
    /\ UNCHANGED <<authUsers, db, session, auth_uid, usersPage>>

Payments_setFormData(formData) ==
    /\ page.name = "Payments" /\ page.isDialogOpen
    /\ formData # page.formData
    /\ formData.contract_id \in page.contracts \cup {NullId}
    /\ page' = [page EXCEPT !.formData = formData]
    /\ toast' = NoToast
    /\ UNCHANGED <<authUsers, db, session, auth_uid, usersPage>>

\* parseFloat(amount.replace(/\D/g, "")) / 100, in centavos
parseAmount(amount) ==
    CASE amount = "0,10" -> 10
      [] OTHER -> 0

\* handleSubmit of Payments up to the answer of the backend
Payments_handleSubmit(unreachable) ==
    /\ page.name = "Payments" /\ page.isDialogOpen /\ ~page.saving
    /\ Room("payments")
    /\ IF page.formData.contract_id = NullId \/ page.formData.amount = ""
       THEN /\ toast' = toast_error("Preencha todos os campos obrigatorios")
            /\ UNCHANGED <<db, page>>
       ELSE IF parseAmount(page.formData.amount) <= 0
       THEN /\ toast' = toast_error("Informe um valor valido")
            /\ UNCHANGED <<db, page>>
       ELSE LET req == InsertRequest("payments",
                           [contract_id |-> page.formData.contract_id,
                            status |-> "pendente", payment_date |-> NullText],
                           unreachable)
            IN  /\ db' = req.db
                /\ page' = [page EXCEPT !.saving = TRUE, !.response = req.response]
                /\ toast' = NoToast
    /\ UNCHANGED <<authUsers, session, auth_uid, usersPage>>

\* the answer handled with the dialog closed and the form reset in the finally
\* block
Payments_answer_closing(p, response, payments) ==
    [page |-> [p EXCEPT !.isDialogOpen = FALSE, !.formData = [contract_id |-> NullId, amount |-> ""],
                        !.saving = FALSE, !.response = NoResponse],
     toast |-> IF response.kind = "ok" THEN toast_success("Pagamento cadastrado com sucesso")
               ELSE toast_error("Erro ao cadastrar pagamento")]

\* the page and the message after the answer: success closes the dialog,
\* resets the form and loads the list again (payments: the list then shown);
\* an error keeps them; finally setSaving(false)
Payments_answer(p, response, payments) ==
    IF response.kind = "ok"
    THEN [page |-> [p EXCEPT !.isDialogOpen = FALSE, !.formData = PaymentsPage.formData,
                             !.payments = payments, !.saving = FALSE,
                             !.response = NoResponse],
          toast |-> toast_success("Pagamento cadastrado com sucesso")]
    ELSE [page |-> [p EXCEPT !.saving = FALSE, !.response = NoResponse],
          toast |-> toast_error("Erro ao cadastrar pagamento")]

\* handleSubmit of Payments from the answer of the backend on
Payments_answered ==
    /\ page.name = "Payments" /\ page.saving
    /\ \E payments \in {SqlSelect(session.user_id, "payments"), page.payments} :
          LET a == Payments_answer(page, page.response, payments)
          IN  page' = a.page /\ toast' = a.toast
    /\ UNCHANGED <<authUsers, db, session, auth_uid, usersPage>>

\* the page and the message after the answer to the update of markAsPaid
markAsPaid_answer(p, response, payments) ==
    IF response.kind = "ok"
    THEN [page |-> [p EXCEPT !.payments = payments],
          toast |-> toast_success("Pagamento marcado como pago")]
    ELSE [page |-> p, toast |-> toast_error("Erro ao atualizar pagamento")]

\* the button of a payment listed as pendente, rendered under canEdit
markAsPaid(id, unreachable) ==
    /\ page.name = "Payments" /\ canEdit(session.role)
    /\ \E payment \in page.payments : payment.id = id /\ payment.status = "pendente"
    /\ LET req == UpdateRequest("payments", id,
                      [status |-> "pago", payment_date |-> "today"], unreachable)
       IN  /\ db' = req.db
           /\ \E payments \in {{r \in db'["payments"] :
                                   Permitted(session.user_id, "payments", "SELECT", r)},
                               page.payments} :
                 LET a == markAsPaid_answer(page, req.response, payments)
                 IN  page' = a.page /\ toast' = a.toast
    /\ UNCHANGED <<authUsers, session, auth_uid, usersPage>>

\* useState of Obligations
ObligationsPage ==
    [name |-> "Obligations", obligations |-> {}, contracts |-> {},
     formData |-> [contract_id |-> NullId, title |-> ""],
     isDialogOpen |-> FALSE, saving |-> FALSE, response |-> NoResponse]

\* /obrigacoes: fetchObligations and fetchContracts set the lists, or leave
\* them empty when the backend is not reached
MountObligations(unreachable) ==
    /\ session # NoSession /\ ~usersPage.mounted
    /\ page' = IF unreachable THEN ObligationsPage
               ELSE [ObligationsPage EXCEPT
                        !.obligations = SqlSelect(session.user_id, "obligations"),
                        !.contracts = ActiveContracts]
    /\ toast' = NoToast
    /\ UNCHANGED <<authUsers, db, session, auth_uid, usersPage>>

\* Nova Obrigacao is rendered under canEdit; Cancelar and the dialog's
\* onOpenChange close it
Obligations_setIsDialogOpen(open) ==
    /\ page.name = "Obligations" /\ page.isDialogOpen # open
    /\ open => canEdit(session.role)
    /\ page' = [page EXCEPT !.isDialogOpen = open]
    /\ toast' = NoToast
    /\ UNCHANGED <<authUsers, db, session, auth_uid, usersPage>>

Obligations_setFormData(formData) ==
    /\ page.name = "Obligations" /\ page.isDialogOpen
    /\ formData # page.formData
    /\ formData.contract_id \in page.contracts \cup {NullId}
    /\ page' = [page EXCEPT !.formData = formData]
    /\ toast' = NoToast
    /\ UNCHANGED <<authUsers, db, session, auth_uid, usersPage>>

\* handleSubmit of Obligations up to the answer of the backend
Obligations_handleSubmit(unreachable) ==
    /\ page.name = "Obligations" /\ page.isDialogOpen /\ ~page.saving
    /\ Room("obligations")
    /\ IF page.formData.contract_id = NullId \/ page.formData.title = ""
       THEN /\ toast' = toast_error("Preencha todos os campos obrigatorios")
            /\ UNCHANGED <<db, page>>
       ELSE LET req == InsertRequest("obligations",
                           [contract_id |-> page.formData.contract_id, status |-> "pendente"],
                           unreachable)
            IN  /\ db' = req.db
                /\ page' = [page EXCEPT !.saving = TRUE, !.response = req.response]
                /\ toast' = NoToast
    /\ UNCHANGED <<authUsers, session, auth_uid, usersPage>>

\* the page and the message after the answer: success closes the dialog,
\* resets the form and loads the list again; an error keeps them; finally
\* setSaving(false)
Obligations_answer(p, response, obligations) ==
    IF response.kind = "ok"
    THEN [page |-> [p EXCEPT !.isDialogOpen = FALSE, !.formData = ObligationsPage.formData,
                             !.obligations = obligations, !.saving = FALSE,
                             !.response = NoResponse],
          toast |-> toast_success("Obrigacao cadastrada com sucesso")]
    ELSE [page |-> [p EXCEPT !.saving = FALSE, !.response = NoResponse],
          toast |-> toast_error("Erro ao cadastrar obrigacao")]

\* handleSubmit of Obligations from the answer of the backend on
Obligations_answered ==
    /\ page.name = "Obligations" /\ page.saving
    /\ \E obligations \in {SqlSelect(session.user_id, "obligations"), page.obligations} :
          LET a == Obligations_answer(page, page.response, obligations)
          IN  page' = a.page /\ toast' = a.toast
    /\ UNCHANGED <<authUsers, db, session, auth_uid, usersPage>>

\* the page and the message after the answer to the update of markAsCompleted
markAsCompleted_answer(p, response, obligations) ==
    IF response.kind = "ok"
    THEN [page |-> [p EXCEPT !.obligations = obligations],
          toast |-> toast_success("Obrigacao marcada como concluida")]
    ELSE [page |-> p, toast |-> toast_error("Erro ao atualizar obrigacao")]

\* the button of an obligation not listed as concluido, rendered under canEdit
markAsCompleted(id, unreachable) ==
    /\ page.name = "Obligations" /\ canEdit(session.role)
    /\ \E obligation \in page.obligations : obligation.id = id /\ obligation.status # "concluido"
    /\ LET req == UpdateRequest("obligations", id, [status |-> "concluido"], unreachable)
       IN  /\ db' = req.db
           /\ \E obligations \in {{r \in db'["obligations"] :
                                      Permitted(session.user_id, "obligations", "SELECT", r)},
                                  page.obligations} :
                 LET a == markAsCompleted_answer(page, req.response, obligations)
                 IN  page' = a.page /\ toast' = a.toast
    /\ UNCHANGED <<authUsers, session, auth_uid, usersPage>>

(* --------------------------- document upload --------------------------- *)
\* the answer to the second of two requests sent one after the other
Then(first, second) == IF first.kind = "ok" THEN second ELSE first

\* error.message || fallback
MessageOr(response, fallback) ==
    IF response.message # "" THEN response.message ELSE fallback

\* the page and the message after the answers to the upload and the insert:
\* success loads the list again (documents: the list then shown)
handleUpload_answer(p, response, documents) ==
    IF response.kind = "ok"
    THEN [page |-> [p EXCEPT !.documents = documents],
          toast |-> toast_success("Documento enviado com sucesso!")]
    ELSE [page |-> p,
          toast |-> toast_error(MessageOr(response, "Erro ao enviar documento"))]

\* the two requests of handleUpload for the card of page p: the upload to the
\* bucket, then, when that gave no error, the insert into documents.
\* fault: the request at which the backend is not reached (0: none)
handleUpload_requests(p, fault) ==
    LET upload == InsertRequest("storage_objects",
                      [bucket_id |-> Bucket, name |-> "path"], fault = 1)
        insert == InsertRequest("documents",
                      [contract_id |-> p.id, file_path |-> "path"], fault = 2)
    IN  [db |-> IF upload.response.kind # "ok" THEN db
                ELSE [db EXCEPT !["storage_objects"] = upload.db["storage_objects"],
                                !["documents"] = insert.db["documents"]],
         response |-> Then(upload.response, insert.response)]

\* the file input of the card, rendered under !readOnly && canEdit: the checks
\* of the file, the requests, the answer
handleUpload(file, fault) ==
    /\ page.name = "ContractForm" /\ page.mode = "editar" /\ canEdit(session.role)
    /\ Cardinality(db["documents"]) < MaxDocuments
    /\ Cardinality(db["storage_objects"]) < MaxDocuments
    /\ IF file = "txt"
       THEN /\ toast' = toast_error("Apenas arquivos PDF sao permitidos")
            /\ UNCHANGED <<db, page>>
       ELSE IF file = "big"
       THEN /\ toast' = toast_error("O arquivo deve ter no maximo 50MB")
            /\ UNCHANGED <<db, page>>
       ELSE LET req == handleUpload_requests(page, fault)
            IN  /\ db' = req.db
                /\ \E documents \in {{r \in db'["documents"] : r.contract_id = page.id},
                                     page.documents} :
                      LET a == handleUpload_answer(page, req.response, documents)
                      IN  page' = a.page /\ toast' = a.toast
    /\ UNCHANGED <<authUsers, session, auth_uid, usersPage>>

\* supabase.from(tbl).delete() / storage.remove of the targets by the
\* session's user
DeleteRequest(tbl, targets, unreachable) ==
    LET res == SqlDelete(session.user_id, tbl, targets)
    IN  [db |-> IF unreachable THEN db ELSE res.db,
         response |-> IF unreachable THEN Failure("network")
                      ELSE IF ~res.error THEN Ok
                      ELSE Failure("constraint")]

\* the page and the message after the answers to the two deletes: success
\* takes the document off the list shown
handleDelete_answer(p, response, doc) ==
    IF response.kind = "ok"
    THEN [page |-> [p EXCEPT !.documents = @ \ {doc}],
          toast |-> toast_success("Documento excluido com sucesso!")]
    ELSE [page |-> p,
          toast |-> toast_error(MessageOr(response, "Erro ao excluir documento"))]

\* the two requests of handleDelete for document doc: the removal from the
\* bucket, then, when that gave no error, the delete from documents
handleDelete_requests(doc, fault) ==
    LET remove == DeleteRequest("storage_objects",
                      {r \in db["storage_objects"] : r.name = doc.file_path}, fault = 1)
        delete == DeleteRequest("documents",
                      {r \in db["documents"] : r.id = doc.id}, fault = 2)
    IN  [db |-> IF remove.response.kind # "ok" THEN db
                ELSE [db EXCEPT !["storage_objects"] = remove.db["storage_objects"],
                                !["documents"] = delete.db["documents"]],
         response |-> Then(remove.response, delete.response)]

\* the Excluir button of a listed document, rendered under !readOnly &&
\* canEdit: confirm(), the requests, the answer
handleDelete(doc, confirmed, fault) ==
    /\ page.name = "ContractForm" /\ page.mode = "editar" /\ canEdit(session.role)
    /\ doc \in page.documents
    /\ IF ~confirmed
       THEN toast' = NoToast /\ UNCHANGED <<db, page>>
       ELSE LET req == handleDelete_requests(doc, fault)
                a == handleDelete_answer(page, req.response, doc)
            IN  /\ db' = req.db
                /\ page' = a.page /\ toast' = a.toast
    /\ UNCHANGED <<authUsers, session, auth_uid, usersPage>>

(* ---------------------- what each page offers -------------------------- *)
\* /dashboard, /, /fornecedores, /contratos
StaticPages == {"Dashboard", "Home", "Suppliers", "Contracts"}

\* navigation to one of them
GoTo(name) ==
    /\ session # NoSession /\ ~usersPage.mounted
    /\ name \in StaticPages /\ page # ListPage(name)
    /\ page' = ListPage(name)
    /\ toast' = NoToast
    /\ UNCHANGED <<authUsers, db, session, auth_uid, usersPage>>

Offer(tbl, cmd) == [tbl |-> tbl, cmd |-> cmd]

\* the requests the buttons and links of page p lead to for a session of the
\* given role.  The link of the dashboard and the submit buttons of the two
\* forms are rendered for every role, and handleSubmit sends no request
\* unless canEdit; the other buttons are rendered under canEdit
Affordances(p, role) ==
    IF ~canEdit(role) THEN {}
    ELSE CASE p.name = "Dashboard" -> {Offer("contracts", "INSERT")}
           [] p.name = "Home" ->
                 {Offer("contracts", "INSERT"), Offer("suppliers", "INSERT"),
                  Offer("obligations", "INSERT"), Offer("payments", "INSERT")}
           [] p.name = "Suppliers" ->
                 {Offer("suppliers", "INSERT"), Offer("suppliers", "UPDATE")}
           [] p.name = "Contracts" ->
                 {Offer("contracts", "INSERT"), Offer("contracts", "UPDATE")}
           [] p.name = "SupplierForm" ->
                 IF p.mode = "novo" THEN {Offer("suppliers", "INSERT")}
                 ELSE {Offer("suppliers", "UPDATE")}
           [] p.name = "ContractForm" ->
                 (IF p.mode = "novo" THEN {Offer("contracts", "INSERT")}
                  ELSE {Offer("contracts", "UPDATE")})
                 \cup
                 (IF p.mode = "editar"
                  THEN {Offer("storage_objects", "INSERT"), Offer("documents", "INSERT")}
                       \cup (IF p.documents # {}
                             THEN {Offer("storage_objects", "DELETE"),
                                   Offer("documents", "DELETE")}
                             ELSE {})
                  ELSE {})
           [] p.name = "Payments" ->
                 {Offer("payments", "INSERT")}
                 \cup (IF \E payment \in p.payments : payment.status = "pendente"
                       THEN {Offer("payments", "UPDATE")} ELSE {})
           [] p.name = "Obligations" ->
                 {Offer("obligations", "INSERT")}
                 \cup (IF \E obligation \in p.obligations : obligation.status # "concluido"
                       THEN {Offer("obligations", "UPDATE")} ELSE {})
           [] OTHER -> {}

\* the role dialog of the Users page, opened from the row of a listed user
UsersPageAffordances ==
    IF usersPage.mounted /\ usersPage.users # {}
    THEN {Offer("user_roles", "UPDATE")} ELSE {}

\* the values the fields of the two forms may be given
SupplierFormValues == [name : {"", "Acme"}, is_active : BOOLEAN]

ContractFormValues ==
    [title : {"", "Obra"}, status : {"rascunho", "ativo"}, supplier_id : {NullId} \cup (1 .. MaxRows)]

\* the supplier and contract forms of one browser
\* the browser on the supplier form
SupplierFormNext ==
    \/ \E u \in Users : SignIn(u)
    \/ SignOut
    \/ LeavePage
    \/ NewSupplierForm
    \/ \E mode \in {"ver", "editar"}, id \in 1 .. MaxRows, unreachable \in BOOLEAN :
          fetchSupplier(mode, id, unreachable)
    \/ \E formData \in SupplierFormValues : SupplierForm_handleChange(formData)
    \/ \E unreachable \in BOOLEAN : SupplierForm_handleSubmit(unreachable)
    \/ SupplierForm_answered

\* a delete of a supplier sent by another client
DeleteSupplier(uid, row) == ApiDelete(uid, "suppliers", row) /\ Backend /\ UNCHANGED auth_uid

\* the supplier form, with signups, role changes and deletes going on
SpecSupplierForm ==
    Init /\ [][\/ SupplierFormNext
               \/ IdentityNext
               \/ \E uid \in Users, row \in db["suppliers"] : DeleteSupplier(uid, row)]_vars

\* the browser on the contract form
ContractFormNext ==
    \/ \E u \in Users : SignIn(u)
    \/ SignOut
    \/ LeavePage
    \/ NewContractForm
    \/ \E mode \in {"ver", "editar"}, id \in 1 .. MaxRows, unreachable \in BOOLEAN :
          fetchContract(mode, id, unreachable)
    \/ \E formData \in ContractFormValues : ContractForm_handleChange(formData)
    \/ \E unreachable \in BOOLEAN : ContractForm_handleSubmit(unreachable)
    \/ ContractForm_answered

\* the contract form, with signups and role changes going on
SpecContractForm == Init /\ [][ContractFormNext \/ IdentityNext]_vars

\* the browser on the document card of a contract opened for editing
DocumentUploadNext ==
    \/ \E u \in Users : SignIn(u)
    \/ SignOut
    \/ LeavePage
    \/ \E name \in StaticPages : GoTo(name)
    \/ \E mode \in {"ver", "editar"}, id \in 1 .. MaxRows, unreachable \in BOOLEAN :
          fetchContract(mode, id, unreachable)
    \/ \E file \in {"pdf", "txt", "big"}, fault \in 0 .. 2 : handleUpload(file, fault)
    \/ \E doc \in db["documents"], confirmed \in BOOLEAN, fault \in 0 .. 2 :
          handleDelete(doc, confirmed, fault)

\* a contract inserted by another client
InsertContract(uid, vals) == ApiInsert(uid, "contracts", vals) /\ Backend /\ UNCHANGED auth_uid

\* the document card, with signups, role changes and new contracts going on
SpecDocuments ==
    Init /\ [][\/ DocumentUploadNext
               \/ IdentityNext
               \/ \E uid \in Users :
                     \E vals \in InsertValues(uid, "contracts") : InsertContract(uid, vals)]_vars

\* the values the fields of the two dialogs may be given
PaymentFormValues == [contract_id : 0 .. MaxRows, amount : {"", "0,00", "0,10"}]

ObligationFormValues == [contract_id : 0 .. MaxRows, title : {"", "Laudo"}]

\* the browser on the payments page
PaymentsNext ==
    \/ \E unreachable \in BOOLEAN : MountPayments(unreachable)
    \/ \E open \in BOOLEAN : Payments_setIsDialogOpen(open)
    \/ \E formData \in PaymentFormValues : Payments_setFormData(formData)
    \/ \E unreachable \in BOOLEAN : Payments_handleSubmit(unreachable)
    \/ Payments_answered
    \/ \E id \in 1 .. MaxRows, unreachable \in BOOLEAN : markAsPaid(id, unreachable)

\* the browser on the obligations page
ObligationsNext ==
    \/ \E unreachable \in BOOLEAN : MountObligations(unreachable)
    \/ \E open \in BOOLEAN : Obligations_setIsDialogOpen(open)
    \/ \E formData \in ObligationFormValues : Obligations_setFormData(formData)
    \/ \E unreachable \in BOOLEAN : Obligations_handleSubmit(unreachable)
    \/ Obligations_answered
    \/ \E id \in 1 .. MaxRows, unreachable \in BOOLEAN : markAsCompleted(id, unreachable)

\* one browser on the five forms of the application
FormsNext ==
    \/ UsersPageNext
    \/ LeavePage
    \/ NewSupplierForm
    \/ \E id \in 1 .. MaxRows, unreachable \in BOOLEAN : fetchSupplier("editar", id, unreachable)
    \/ \E formData \in SupplierFormValues : SupplierForm_handleChange(formData)
    \/ \E unreachable \in BOOLEAN : SupplierForm_handleSubmit(unreachable)
    \/ SupplierForm_answered
    \/ NewContractForm
    \/ \E id \in 1 .. MaxRows, unreachable \in BOOLEAN : fetchContract("editar", id, unreachable)
    \/ \E formData \in ContractFormValues : ContractForm_handleChange(formData)
    \/ \E unreachable \in BOOLEAN : ContractForm_handleSubmit(unreachable)
    \/ ContractForm_answered
    \/ \E unreachable \in BOOLEAN : MountPayments(unreachable)
    \/ \E open \in BOOLEAN : Payments_setIsDialogOpen(open)
    \/ \E formData \in PaymentFormValues : Payments_setFormData(formData)
    \/ \E unreachable \in BOOLEAN : Payments_handleSubmit(unreachable)
    \/ Payments_answered
    \/ \E unreachable \in BOOLEAN : MountObligations(unreachable)
    \/ \E open \in BOOLEAN : Obligations_setIsDialogOpen(open)
    \/ \E formData \in ObligationFormValues : Obligations_setFormData(formData)
    \/ \E unreachable \in BOOLEAN : Obligations_handleSubmit(unreachable)
    \/ Obligations_answered

\* the forms used from one browser, with signups and role changes going on
SpecForms == Init /\ [][FormsNext \/ IdentityNext]_vars

\* an update of a contract sent by the contract form of another session
OtherContractUpdate(uid, row, vals) ==
    ApiUpdate(uid, "contracts", row, vals) /\ Backend /\ UNCHANGED auth_uid

\* one browser on the Users page and the contract form, while other sessions
\* sign up, change roles and save contracts
RaceNext ==
    \/ UsersPageNext
    \/ LeavePage
    \/ \E id \in 1 .. MaxRows : fetchContract("editar", id, FALSE)
    \/ \E formData \in ContractFormValues : ContractForm_handleChange(formData)
    \/ \E unreachable \in BOOLEAN : ContractForm_handleSubmit(unreachable)
    \/ ContractForm_answered
    \/ IdentityNext
    \/ \E uid \in Users :
          InsertContract(uid, [supplier_id |-> NullId, status |-> "rascunho"])
    \/ \E uid \in Users, row \in db["contracts"] :
          \E vals \in [status : {"rascunho", "ativo"}, supplier_id : {NullId}] :
              OtherContractUpdate(uid, row, vals)

SpecRace == Init /\ [][RaceNext]_vars

(* ------------------------------ view mode ------------------------------ *)
\* Editar Fornecedor, rendered under readOnly && canEdit inside the form and
\* with no type: onClick navigates to the edit route, and the button is the
\* submit button of its form.  submits: the submit event of the form follows
\* the click (the button is still attached to the form when the browser takes
\* the default action of the click) and handleSubmit of the view runs, with
\* isNew false; otherwise the click navigates only
SupplierForm_Editar(submits, unreachable) ==
    /\ page.name = "SupplierForm" /\ page.mode = "ver" /\ canEdit(session.role)
    /\ IF submits /\ supplierSchema(page.formData)
       THEN LET req == UpdateRequest("suppliers", page.id,
                                     [is_active |-> page.formData.is_active], unreachable)
            IN  /\ db' = req.db
                /\ page' = [page EXCEPT !.mode = "editar", !.saving = TRUE,
                                        !.response = req.response]
                /\ toast' = NoToast
       ELSE /\ page' = [page EXCEPT !.mode = "editar"]
            /\ toast' = IF submits THEN toast_error("Dados invalidos") ELSE NoToast
            /\ UNCHANGED db
    /\ UNCHANGED <<authUsers, session, auth_uid, usersPage>>

\* Editar Contrato, written the same way
ContractForm_Editar(submits, unreachable) ==
    /\ page.name = "ContractForm" /\ page.mode = "ver" /\ canEdit(session.role)
    /\ IF submits /\ contractSchema(page.formData)
       THEN LET req == UpdateRequest("contracts", page.id,
                                     [supplier_id |-> page.formData.supplier_id,
                                      status |-> page.formData.status], unreachable)
            IN  /\ db' = req.db
                /\ page' = [page EXCEPT !.mode = "editar", !.saving = TRUE,
                                        !.response = req.response]
                /\ toast' = NoToast
       ELSE /\ page' = [page EXCEPT !.mode = "editar"]
            /\ toast' = IF submits THEN toast_error("Dados invalidos") ELSE NoToast
            /\ UNCHANGED db
    /\ UNCHANGED <<authUsers, session, auth_uid, usersPage>>

\* one browser on the two forms at novo, ver and editar
ViewNext ==
    \/ \E u \in Users : SignIn(u)
    \/ SignOut
    \/ LeavePage
    \/ NewSupplierForm
    \/ \E mode \in {"ver", "editar"}, id \in 1 .. MaxRows, unreachable \in BOOLEAN :
          fetchSupplier(mode, id, unreachable)
    \/ \E formData \in SupplierFormValues : SupplierForm_handleChange(formData)
    \/ \E unreachable \in BOOLEAN : SupplierForm_handleSubmit(unreachable)
    \/ SupplierForm_answered
    \/ \E submits, unreachable \in BOOLEAN : SupplierForm_Editar(submits, unreachable)
    \/ NewContractForm
    \/ \E mode \in {"ver", "editar"}, id \in 1 .. MaxRows, unreachable \in BOOLEAN :
          fetchContract(mode, id, unreachable)
    \/ \E formData \in ContractFormValues : ContractForm_handleChange(formData)
    \/ \E unreachable \in BOOLEAN : ContractForm_handleSubmit(unreachable)
    \/ ContractForm_answered
    \/ \E submits, unreachable \in BOOLEAN : ContractForm_Editar(submits, unreachable)

(* ------------------------- every route that writes --------------------- *)
\* one browser on the routes that send inserts and updates, each opened
\* directly: the two forms at novo, ver and editar, the document card, the
\* payments and the obligations pages
RoutesNext ==
    \/ \E u \in Users : SignIn(u)
    \/ SignOut
    \/ LeavePage
    \/ NewSupplierForm
    \/ \E mode \in {"ver", "editar"}, id \in 1 .. MaxRows : fetchSupplier(mode, id, FALSE)
    \/ \E formData \in SupplierFormValues : SupplierForm_handleChange(formData)
    \/ SupplierForm_handleSubmit(FALSE)
    \/ SupplierForm_answered
    \/ NewContractForm
    \/ \E mode \in {"ver", "editar"}, id \in 1 .. MaxRows : fetchContract(mode, id, FALSE)
    \/ \E formData \in ContractFormValues : ContractForm_handleChange(formData)
    \/ ContractForm_handleSubmit(FALSE)
    \/ ContractForm_answered
    \/ \E fault \in 0 .. 2 : handleUpload("pdf", fault)
    \/ \E doc \in db["documents"], fault \in 0 .. 2 : handleDelete(doc, TRUE, fault)
    \/ PaymentsNext
    \/ ObligationsNext

\* a signup by another client
SignupStep(u) == Signup(u, "mail", raw_user_meta_data(u), 0) /\ Backend /\ UNCHANGED auth_uid

\* the routes, with signups going on
SpecRoutes == Init /\ [][RoutesNext \/ \E u \in Users : SignupStep(u)]_vars

\* the two forms, with signups going on
SpecView == Init /\ [][ViewNext \/ \E u \in Users : SignupStep(u)]_vars

(* ---------------------------- contracts list --------------------------- *)
\* fetches of the list that may be awaited at once
MaxInFlight == 2

\* the values of the status filter
StatusFilters == {"all", "rascunho", "ativo"}

\* the rows the query of fetchContracts returns for a status filter
ContractsQuery(statusFilter) ==
    {r \in SqlSelect(session.user_id, "contracts") :
        statusFilter = "all" \/ r.status = statusFilter}

\* fetchContracts up to the await: the query is sent with the filter of the
\* render that called it, and its answer is awaited
fetchContracts(statusFilter, unreachable) ==
    [statusFilter |-> statusFilter,
     response |-> IF unreachable THEN Failure("network") ELSE Ok,
     data |-> IF unreachable THEN {} ELSE ContractsQuery(statusFilter)]

\* useState of Contracts
ContractsPage ==
    [name |-> "ContractsList", contracts |-> {}, statusFilter |-> "all", inflight |-> {}]

\* /contratos: the effect calls fetchContracts
MountContracts(unreachable) ==
    /\ session # NoSession /\ ~usersPage.mounted /\ page.name # "ContractsList"
    /\ page' = [ContractsPage EXCEPT !.inflight = {fetchContracts("all", unreachable)}]
    /\ toast' = NoToast
    /\ UNCHANGED <<authUsers, db, session, auth_uid, usersPage>>

\* the status select: setStatusFilter(value), and the effect on statusFilter
\* calls fetchContracts again
setStatusFilter(value, unreachable) ==
    /\ page.name = "ContractsList" /\ value # page.statusFilter
    /\ Cardinality(page.inflight) < MaxInFlight
    /\ page' = [page EXCEPT !.statusFilter = value,
                            !.inflight = @ \cup {fetchContracts(value, unreachable)}]
    /\ toast' = NoToast
    /\ UNCHANGED <<authUsers, db, session, auth_uid, usersPage>>

\* fetchContracts from the await on, for one of the answers awaited:
\* setContracts(data), or the error logged
fetchContracts_answered(x) ==
    /\ page.name = "ContractsList" /\ x \in page.inflight
    /\ page' = [page EXCEPT !.contracts = IF x.response.kind = "ok" THEN x.data ELSE @,
                            !.inflight = @ \ {x}]
    /\ toast' = NoToast
    /\ UNCHANGED <<authUsers, db, session, auth_uid, usersPage>>

\* a contract saved as ativo by another session while the list is not open
ActivateContract(uid, row) ==
    /\ page.name # "ContractsList"
    /\ ApiUpdate(uid, "contracts", row, [status |-> "ativo"])
    /\ Backend /\ UNCHANGED auth_uid

\* a contract created by another session while the list is not open
CreateContract(uid) ==
    /\ page.name # "ContractsList"
    /\ InsertContract(uid, [supplier_id |-> NullId, status |-> "rascunho"])

\* the answers the list awaits
InFlight == IF page.name = "ContractsList" THEN page.inflight ELSE {}

\* the browser on the list of contracts
ContractsListNext ==
    \/ \E u \in Users : SignIn(u)
    \/ SignOut
    \/ LeavePage
    \/ \E unreachable \in BOOLEAN : MountContracts(unreachable)
    \/ \E value \in StatusFilters, unreachable \in BOOLEAN : setStatusFilter(value, unreachable)
    \/ \E x \in InFlight : fetchContracts_answered(x)

\* the list, with signups, role changes and contracts saved before it opens
SpecContractsList ==
    Init /\ [][\/ ContractsListNext
               \/ IdentityNext
               \/ \E uid \in Users : CreateContract(uid)
               \/ \E uid \in Users, row \in db["contracts"] : ActivateContract(uid, row)]_vars

(* --------------------------- payments, two sessions -------------------- *)
\* new Date().toISOString().split("T")[0] on the clock of another browser
OtherDays == {"yesterday", "today"}

\* markAsPaid of another session, on a payment its list shows as pendente
OtherMarkAsPaid(uid, row, day) ==
    /\ row.status = "pendente"
    /\ ApiUpdate(uid, "payments", row, [status |-> "pago", payment_date |-> day])
    /\ Backend /\ UNCHANGED auth_uid

\* one browser on the payments page, while other sessions sign up, save
\* contracts and mark payments
SpecPayments ==
    Init /\ [][\/ \E u \in Users : SignIn(u)
               \/ SignOut
               \/ LeavePage
               \/ PaymentsNext
               \/ \E u \in Users : SignupStep(u)
               \/ \E uid \in Users : CreateContract(uid)
               \/ \E uid \in Users, row \in db["contracts"] : ActivateContract(uid, row)
               \/ \E uid \in Users, row \in db["payments"], day \in OtherDays :
                     OtherMarkAsPaid(uid, row, day)]_vars

(* ------------------- navigation with a request in flight --------------- *)
\* the form is left for another page while its save is awaited: the component
\* is unmounted and the rest of handleSubmit stays scheduled
NavigateWhileSaving(name) ==
    /\ page.name \in {"SupplierForm", "ContractForm"} /\ page.saving
    /\ name \in StaticPages
    /\ page' = [name |-> name, pending |-> page]
    /\ toast' = NoToast
    /\ UNCHANGED <<authUsers, db, session, auth_uid, usersPage>>

\* the rest of handleSubmit runs when the answer arrives: the message is shown
\* and, on success, navigate() goes to the list; setSaving(false) of the
\* unmounted form changes nothing
PendingAnswered ==
    /\ "pending" \in DOMAIN page
    /\ LET p == page.pending
           a == IF p.name = "SupplierForm" THEN SupplierForm_answer(p, p.response)
                ELSE ContractForm_answer(p, p.response)
       IN  /\ page' = IF p.response.kind = "ok" THEN a.page ELSE ListPage(page.name)
           /\ toast' = a.toast
    /\ UNCHANGED <<authUsers, db, session, auth_uid, usersPage>>

\* one browser on the two forms, leaving them at any moment
StaleNext ==
    \/ \E u \in Users : SignIn(u)
    \/ SignOut
    \/ \E name \in StaticPages : GoTo(name)
    \/ NewSupplierForm
    \/ \E formData \in SupplierFormValues : SupplierForm_handleChange(formData)
    \/ \E unreachable \in BOOLEAN : SupplierForm_handleSubmit(unreachable)
    \/ SupplierForm_answered
    \/ NewContractForm
    \/ \E formData \in ContractFormValues : ContractForm_handleChange(formData)
    \/ \E unreachable \in BOOLEAN : ContractForm_handleSubmit(unreachable)
    \/ ContractForm_answered
    \/ \E name \in StaticPages : NavigateWhileSaving(name)
    \/ PendingAnswered

SpecStale == Init /\ [][StaleNext \/ IdentityNext]_vars

(* ------------------------------ audit page ----------------------------- *)
\* entries the audit table may hold while the page is looked at
MaxEntries == 3
\* created_at values of the entries
MaxClock == 2

\* .limit(500), on the scale of MaxEntries
LogsLimit == 2

UpperCase == <<"A", "B", "C", "D", "E", "F", "G", "H", "I", "J", "K", "L", "M",
               "N", "O", "P", "Q", "R", "S", "T", "U", "V", "W", "X", "Y", "Z">>

LowerCase == <<"a", "b", "c", "d", "e", "f", "g", "h", "i", "j", "k", "l", "m",
               "n", "o", "p", "q", "r", "s", "t", "u", "v", "w", "x", "y", "z">>

\* the characters of the texts the columns hold
Chars(text) ==
    CASE text = "" -> <<>>
      [] text = "Admin" -> <<"A", "d", "m", "i", "n">>
      [] text = "Ana" -> <<"A", "n", "a">>
      [] text = "Bia" -> <<"B", "i", "a">>
      [] text = "Sistema" -> <<"S", "i", "s", "t", "e", "m", "a">>
      [] text = "contracts" -> <<"c", "o", "n", "t", "r", "a", "c", "t", "s">>
      [] text = "suppliers" -> <<"s", "u", "p", "p", "l", "i", "e", "r", "s">>
      [] text = "c1" -> <<"c", "1">>

\* toLowerCase left out
toLowerCaseIdentity(s) == s

\* String.prototype.toLowerCase, a character at a time
toLowerCase(s) ==
    [i \in 1 .. Len(s) |->
        IF \E k \in 1 .. 26 : UpperCase[k] = s[i]
        THEN LowerCase[CHOOSE k \in 1 .. 26 : UpperCase[k] = s[i]]
        ELSE s[i]]

\* String.prototype.includes
includes(s, searchString) ==
    \E i \in 1 .. (Len(s) - Len(searchString) + 1) :
        SubSeq(s, i, i + Len(searchString) - 1) = searchString

\* the values an entry may be written with by actor uid: the columns are the
\* writer's choice, created_at included
AuditEntryValues(uid) ==
    {[user_id |-> uid, action |-> "INSERT", table_name |-> "contracts",
      record_id |-> "c1", created_at |-> t] : t \in 1 .. MaxClock}
    \cup
    {[user_id |-> uid, action |-> "INSERT", table_name |-> "suppliers",
      record_id |-> NullText, created_at |-> 1],
     [user_id |-> NullId, action |-> "DELETE", table_name |-> "suppliers",
      record_id |-> NullText, created_at |-> MaxClock]}

\* an entry written by an authenticated actor, before the page is opened
LogEntry(uid, vals) ==
    /\ uid \in authUsers /\ Cardinality(db["audit_logs"]) < MaxEntries
    /\ page.name # "AuditLogs"
    /\ LET res == SqlInsert(uid, "audit_logs", vals)
       IN  db' = res.db
    /\ UNCHANGED authUsers
    /\ Backend /\ UNCHANGED auth_uid

\* the sequences that hold each of the rows once
Orderings(rows) ==
    {s \in [1 .. Cardinality(rows) -> rows] : \A i, j \in DOMAIN s : i # j => s[i] # s[j]}

\* the order left ascending
order_created_at_ascending(rows) ==
    {s \in Orderings(rows) :
        \A i, j \in DOMAIN s : i < j => s[i].created_at <= s[j].created_at}

\* .order("created_at", { ascending: false }): entries written at the same
\* time come in either order
order_created_at(rows) ==
    {s \in Orderings(rows) :
        \A i, j \in DOMAIN s : i < j => s[i].created_at >= s[j].created_at}

\* .limit(n)
limit(s, n) == SubSeq(s, 1, IF Len(s) < n THEN Len(s) ELSE n)

\* profile?.full_name || "Sistema" for the profile found by user_id
user_name(log, profiles) ==
    LET found == {p \in profiles : p.user_id = log.user_id}
    IN  IF found = {} THEN "Sistema"
        ELSE LET profile == CHOOSE p \in found : TRUE
             IN  IF profile.full_name = "" THEN "Sistema" ELSE profile.full_name

\* useState of AuditLogs
AuditLogsPage ==
    [name |-> "AuditLogs", logs |-> <<>>, profiles |-> {},
     searchTerm |-> <<>>, actionFilter |-> "all", tableFilter |-> "all"]

\* the lists fetchData may set for the session's user: the entries the policy
\* returns, ordered and limited, each with its user_name, and the profiles
fetchData ==
    LET profiles == SqlSelect(session.user_id, "profiles")
    IN  {[AuditLogsPage EXCEPT
             !.profiles = profiles,
             !.logs = [i \in DOMAIN s |->
                          s[i] @@ [user_name |-> user_name(s[i], profiles)]]] :
         s \in {limit(o, LogsLimit) :
                   o \in order_created_at(SqlSelect(session.user_id, "audit_logs"))}}

\* /auditoria: a session that is not isAdmin is sent to the dashboard, another
\* one loads the entries, or is shown an error when the backend is not reached
MountAuditLogs(unreachable) ==
    /\ session # NoSession /\ ~usersPage.mounted
    /\ IF ~isAdmin(session.role)
       THEN /\ page' = ListPage("Dashboard")
            /\ toast' = toast_error("Acesso negado")
       ELSE IF unreachable
       THEN /\ page' = AuditLogsPage
            /\ toast' = toast_error("Erro ao carregar logs de auditoria")
       ELSE /\ page' \in fetchData
            /\ toast' = NoToast
    /\ UNCHANGED <<authUsers, db, session, auth_uid, usersPage>>

setSearchTerm(value) ==
    /\ page.name = "AuditLogs" /\ page.searchTerm # value
    /\ page' = [page EXCEPT !.searchTerm = value]
    /\ toast' = NoToast
    /\ UNCHANGED <<authUsers, db, session, auth_uid, usersPage>>

setActionFilter(value) ==
    /\ page.name = "AuditLogs" /\ page.actionFilter # value
    /\ page' = [page EXCEPT !.actionFilter = value]
    /\ toast' = NoToast
    /\ UNCHANGED <<authUsers, db, session, auth_uid, usersPage>>

setTableFilter(value) ==
    /\ page.name = "AuditLogs" /\ page.tableFilter # value
    /\ page' = [page EXCEPT !.tableFilter = value]
    /\ toast' = NoToast
    /\ UNCHANGED <<authUsers, db, session, auth_uid, usersPage>>

\* the test of logs.filter for one entry
matches(log, searchTerm, actionFilter, tableFilter) ==
    LET term == toLowerCase(searchTerm)
        matchesSearch ==
            \/ includes(toLowerCase(Chars(log.user_name)), term)
            \/ includes(toLowerCase(Chars(log.table_name)), term)
            \/ (log.record_id # NullText /\ includes(toLowerCase(Chars(log.record_id)), term))
        matchesAction == actionFilter = "all" \/ log.action = actionFilter
        matchesTable == tableFilter = "all" \/ log.table_name = tableFilter
    IN  matchesSearch /\ matchesAction /\ matchesTable

\* filteredLogs of the page
filteredLogs(p) ==
    LET Test(log) == matches(log, p.searchTerm, p.actionFilter, p.tableFilter)
    IN  SelectSeq(p.logs, Test)

\* the search terms typed
SearchTerms == {<<>>, <<"a", "D">>, <<"S", "i", "s">>, <<"c", "1">>}

\* the browser of an administrator on the audit page
AuditLogsNext ==
    \/ \E u \in Users : SignIn(u)
    \/ SignOut
    \/ LeavePage
    \/ \E unreachable \in BOOLEAN : MountAuditLogs(unreachable)
    \/ \E value \in SearchTerms : setSearchTerm(value)
    \/ \E value \in {"all", "INSERT", "DELETE"} : setActionFilter(value)
    \/ \E value \in {"all", "contracts", "suppliers"} : setTableFilter(value)

\* the audit page, with signups going on and entries being written
SpecAuditLogs ==
    Init /\ [][\/ AuditLogsNext
               \/ \E u \in Users :
                     Signup(u, "mail", raw_user_meta_data(u), 0) /\ Backend /\ UNCHANGED auth_uid
               \/ \E uid \in Users :
                     \E vals \in AuditEntryValues(uid) : LogEntry(uid, vals)]_vars

(* ------------------------ operations of the application ---------------- *)
\* signups, role changes, every insert, update and delete a session may send
\* on suppliers, contracts, payments, obligations and documents, and the
\* audit page
OperationsNext ==
    \/ Next
    \/ \E u \in Users : SignIn(u)
    \/ SignOut
    \/ LeavePage
    \/ \E unreachable \in BOOLEAN : MountAuditLogs(unreachable)

SpecOperations == Init /\ [][OperationsNext]_vars

(* ------------------------- the policy matrix --------------------------- *)
\* the cells of the matrix: select, insert, update, delete
MatrixRow(tbl) ==
    CASE tbl = "profiles" -> <<"any", "none", "own", "none">>
      [] tbl = "user_roles" -> <<"any", "admin", "admin", "admin">>
      [] tbl \in DomainTables -> <<"any", "admin_gestor", "admin_gestor", "admin">>
      [] tbl = "audit_logs" -> <<"admin", "any", "none", "none">>
      [] tbl = "notification_settings" -> <<"own", "own", "own", "none">>
      [] tbl = "storage_objects" -> <<"any", "admin_gestor", "none", "admin">>

CmdIndex(cmd) ==
    CASE cmd = "SELECT" -> 1 [] cmd = "INSERT" -> 2 [] cmd = "UPDATE" -> 3 [] cmd = "DELETE" -> 4

Tabulated(tbl, cmd, r, isOwner) ==
    LET cell == MatrixRow(tbl)[CmdIndex(cmd)]
    IN  CASE cell = "any" -> TRUE
          [] cell = "none" -> FALSE
          [] cell = "own" -> isOwner
          [] cell = "admin" -> r = "admin"
          [] cell = "admin_gestor" -> r \in {"admin", "gestor"}

\* a row of the bucket owned by identity o
RowOf(o) == [user_id |-> o, bucket_id |-> Bucket]

\* C1: for an authenticated actor holding exactly role r, the decision of the
\* policies on every table and command, for a row the actor owns and for a row
\* it does not own, is the cell of the matrix; a cell with no policy is denied.
PolicyMatrixHolds ==
    \A u \in authUsers, r \in app_role :
        RolesOf(u) = {r} =>
            \A tbl \in TableNames, cmd \in Cmds, o \in Users :
                Permitted(u, tbl, cmd, RowOf(o)) = Tabulated(tbl, cmd, r, u = o)

\* a gestor and a visualizador exist, and a supplier was inserted
PolicyMatrixWitness ==
    \E u, v \in authUsers :
        /\ u # v /\ RolesOf(u) = {"gestor"} /\ RolesOf(v) = {"visualizador"}
        /\ db["suppliers"] # {}

HasEditRole(u) == has_role(u, "admin") \/ has_role(u, "gestor")

DomainChanged == \E tbl \in DomainTables : db'[tbl] # db[tbl]

DomainRowRemoved == \E tbl \in DomainTables : \E r \in db[tbl] : r.id \notin Ids(db'[tbl])

\* C2: a step that changes a domain table is a request, and every request
\* whose step inserts or updates a row of a domain table is of an actor who
\* holds admin or gestor when it is evaluated, every request whose step removes
\* one of an actor who holds admin, whatever role the session has cached.
DomainWritesAuthorized ==
    [][DomainChanged =>
          /\ auth_uid' \in authUsers
          /\ HasEditRole(auth_uid')
          /\ DomainRowRemoved => has_role(auth_uid', "admin")]_vars

\* the session still shows canEdit for a user who was demoted, while domain
\* rows exist
StaleFlagWitness ==
    /\ session.user_id # NullId /\ canEdit(session.role)
    /\ ~HasEditRole(session.user_id)
    /\ db["suppliers"] # {} /\ db["contracts"] # {}

\* C3: on every domain table delete is permitted to admin only, insert and
\* update to admin and gestor: a gestor may insert and update and may not delete.
DeleteStricterThanWrite ==
    \A tbl \in DomainTables, u \in authUsers, r \in app_role :
        RolesOf(u) = {r} =>
            \A row \in db[tbl] \cup {RowOf(u)} :
                /\ Permitted(u, tbl, "DELETE", row) <=> r = "admin"
                /\ Permitted(u, tbl, "INSERT", row) <=> r \in {"admin", "gestor"}
                /\ Permitted(u, tbl, "UPDATE", row) <=> r \in {"admin", "gestor"}
                /\ Permitted(u, tbl, "DELETE", row) => Permitted(u, tbl, "INSERT", row)
                /\ r = "gestor" => ~Permitted(u, tbl, "DELETE", row)

\* a gestor exists and rows of two domain tables exist
DeleteStricterWitness ==
    /\ \E u \in authUsers : RolesOf(u) = {"gestor"}
    /\ db["contracts"] # {} /\ db["payments"] # {}

\* C4: canEdit holds exactly of admin and gestor and isAdmin exactly of admin,
\* so isAdmin implies canEdit and both are false of visualizador; so are the
\* flags of the session.
CapabilityFlags ==
    /\ \A r \in app_role :
          /\ canEdit(r) <=> (r = "admin" \/ r = "gestor")
          /\ isAdmin(r) <=> r = "admin"
          /\ isAdmin(r) => canEdit(r)
    /\ ~canEdit("visualizador") /\ ~isAdmin("visualizador")
    /\ session.role \in app_role =>
          /\ canEdit(session.role) = (session.role # "visualizador")
          /\ isAdmin(session.role) = (session.role = "admin")

\* a session of a gestor: it may edit and is no administrator
CapabilityWitness ==
    /\ session.user_id # NullId /\ session.role = "gestor"
    /\ canEdit(session.role) /\ ~isAdmin(session.role)

(* ----------------------- roles and provisioning ------------------------ *)
RowsOf(d, tbl, u) == {r \in d[tbl] : r.user_id = u}

NoAdmin(d) == \A r \in d["user_roles"] : r.role # "admin"

RolesChanged == db'["user_roles"] # db["user_roles"]

\* a step in which the trigger function changed the tables
TriggerStep == db' # db /\ auth_uid' = NullId

\* C5: a step that changes user_roles is signup provisioning or a request, and
\* every request whose step changes user_roles is of an actor who holds admin
\* when it is evaluated; from a state with no admin the next state has no admin.
RolesChangedByAdminOnly ==
    [][/\ RolesChanged =>
              \/ TriggerStep /\ authUsers' # authUsers
              \/ auth_uid' \in authUsers /\ has_role(auth_uid', "admin")
       /\ NoAdmin(db) => NoAdmin(db')]_vars

\* no user is admin any more, and a user holds a role that only an admin's
\* request can have given
NoAdminWitness ==
    /\ NoAdmin(db) /\ Cardinality(authUsers) >= 2
    /\ \E u \in authUsers : RolesOf(u) = {"gestor"}

\* the three records of identity u in database d, as provisioning writes them
Provisioned(d, u) ==
    /\ Cardinality(RowsOf(d, "profiles", u)) = 1
    /\ Cardinality(RowsOf(d, "user_roles", u)) = 1
    /\ \A r \in RowsOf(d, "user_roles", u) : r.role = "visualizador"
    /\ Cardinality(RowsOf(d, "notification_settings", u)) = 1
    /\ \A r \in RowsOf(d, "notification_settings", u) :
          /\ r.email_enabled = TRUE
          /\ r.days_before_expiry = <<7, 15, 30>>
          /\ r.weekly_summary = TRUE

\* C6: when a signup completes, the new identity has exactly one profiles row,
\* exactly one user_roles row, of role visualizador, and exactly one
\* notification_settings row with the default values.
SignupProvisionsThree ==
    [][\A u \in Users : (u \notin authUsers /\ u \in authUsers') => Provisioned(db', u)]_vars

\* an identity that signed up holds its three records as provisioning wrote them
SignupWitness ==
    \E u \in authUsers : u # 1 /\ Provisioned(db, u)

HasAll(d, u) == \A tbl \in UserTables : RowsOf(d, tbl, u) # {}

HasNone(d, u) == \A tbl \in UserTables : RowsOf(d, tbl, u) = {}

ReProvisionStep == auth_uid' = NullId /\ authUsers' = authUsers

\* C8: provisioning run again for an identity that exists leaves the profiles,
\* user_roles and notification_settings rows of every identity as they were,
\* in number and in content.
ReprovisionChangesNothing ==
    [][ReProvisionStep =>
          \A u \in authUsers, tbl \in UserTables :
              /\ RowsOf(db', tbl, u) = RowsOf(db, tbl, u)
              /\ Cardinality(RowsOf(db', tbl, u)) = Cardinality(RowsOf(db, tbl, u))]_vars

\* every identity exists and one of them is no longer a visualizador, so that
\* only the constraints of profiles and notification_settings stand in the way
ReprovisionWitness ==
    /\ authUsers = Users
    /\ \E u \in authUsers : RolesOf(u) = {"gestor"}

\* C9: no step modifies or removes an entry of audit_logs.
AuditAppendOnly ==
    [][\A e \in db["audit_logs"] : e \in db'["audit_logs"]]_vars

\* entries exist beside an administrator
AuditWitness ==
    /\ Cardinality(db["audit_logs"]) >= 2
    /\ \E u \in authUsers : has_role(u, "admin")

(* ----------------------------- Users page ------------------------------ *)
\* C10: the user selected in the role dialog is never the acting user, and no
\* update of user_roles the page has sent targets the user who sent it.
NoSelfRoleChange ==
    /\ usersPage.selectedUser # NoUser => usersPage.selectedUser.user_id # session.user_id
    /\ usersPage.request # NoRequest => usersPage.request.target # usersPage.request.actor

\* an administrator whose own row is in the list has sent an update for
\* another user
NoSelfRoleChangeWitness ==
    /\ usersPage.updating /\ usersPage.request.actor = session.user_id
    /\ \E u \in usersPage.users : u.user_id = session.user_id
    /\ usersPage.request.target \in authUsers

\* the roles a resolution of u's role in database d may give: that of a role
\* row of u, visualizador when u has none
RoleResolution(d, u) ==
    LET rs == {r.role : r \in RowsOf(d, "user_roles", u)}
    IN  IF rs = {} THEN {"visualizador"} ELSE rs

\* Salvar sends the update and the backend reports no error
RoleChangeSucceeds ==
    ~usersPage.updating /\ usersPage'.updating /\ ~usersPage'.request.error

\* C11: when an actor who holds admin changes on the Users page the role of
\* another user, whose role resolves to visualizador, to gestor and the update
\* reports no error, the role of that user resolves to gestor from then on.
RoleChangeTakesEffect ==
    [][(/\ RoleChangeSucceeds
        /\ has_role(session.user_id, "admin")
        /\ RoleResolution(db, usersPage.selectedUser.user_id) = {"visualizador"}
        /\ usersPage.newRole = "gestor")
       => RoleResolution(db', usersPage.selectedUser.user_id) = {"gestor"}]_vars

\* C12: a role resolved for a user who has no user_roles row is visualizador,
\* with canEdit and isAdmin false, and a role resolved for a user who has role
\* rows is the role of one of them: so for the role a session loads at sign-in
\* and for the role of every user in a list the Users page loads.
ResolutionDefaultsToViewer ==
    [][/\ (session = NoSession /\ session' # NoSession /\ session'.role # NullText) =>
              /\ session'.role \in RoleResolution(db', session'.user_id)
              /\ RowsOf(db', "user_roles", session'.user_id) = {} =>
                    /\ session'.role = "visualizador"
                    /\ ~canEdit(session'.role) /\ ~isAdmin(session'.role)
                    /\ getRoleBadge(session'.role) = "Visualizador"
       /\ (usersPage'.mounted /\ usersPage'.users # usersPage.users) =>
              \A u \in usersPage'.users :
                  /\ u.role \in RoleResolution(db', u.user_id)
                  /\ RowsOf(db', "user_roles", u.user_id) = {} => u.role = "visualizador"]_vars

\* the list of the Users page shows a user who has no role row as visualizador
\* and a user who has one with the role of the row
ResolutionWitness ==
    /\ usersPage.mounted
    /\ \E u \in usersPage.users :
          RowsOf(db, "user_roles", u.user_id) = {} /\ u.role = "visualizador"
    /\ \E u \in usersPage.users :
          u.user_id # session.user_id /\ u.role = "gestor" /\ has_role(u.user_id, "gestor")

\* the actor of the session holds neither admin nor gestor, or the session
\* resolved visualizador
Viewer ==
    \/ session.role = "visualizador"
    \/ ~(has_role(session.user_id, "admin") \/ has_role(session.user_id, "gestor"))

\* C13: a visualizador who submits the new-contract form creates no contracts
\* row, is shown an error message and no success message, and stays on the
\* form: the submission is refused by the form or answered with an error, and
\* the answer with an error keeps the form and shows the error
ViewerCannotCreateContract ==
    [][/\ ((\E unreachable \in BOOLEAN : ContractForm_handleSubmit(unreachable))
             /\ page.mode = "novo" /\ Viewer)
            => /\ db'["contracts"] = db["contracts"]
               /\ page'.name = "ContractForm" /\ page'.formData = page.formData
               /\ toast'.type # "success"
               /\ IF page'.saving THEN page'.response.kind \notin {"ok", "none"}
                                  ELSE toast'.type = "error"
       /\ (ContractForm_answered /\ page.mode = "novo" /\ page.response.kind # "ok")
            => /\ db' = db
               /\ page'.name = "ContractForm" /\ page'.formData = page.formData
               /\ toast'.type = "error"]_vars

\* a visualizador whose session still holds gestor has sent a valid new
\* contract and has been answered with an error
ViewerRefusedWitness ==
    /\ page.name = "ContractForm" /\ page.mode = "novo" /\ ~page.saving
    /\ contractSchema(page.formData)
    /\ session.role = "gestor" /\ RolesOf(session.user_id) = {"visualizador"}
    /\ toast = toast_error("Erro ao salvar contrato. Tente novamente.")
    /\ db["contracts"] = {}

AffordancesAllowed ==
    session.role \in app_role =>
        \A o \in Affordances(page, session.role) \cup UsersPageAffordances :
            Tabulated(o.tbl, o.cmd, session.role, FALSE)

\* a gestor, who holds gestor in user_roles too, has pressed Excluir on a
\* document and confirmed: the success message is shown, the document is off
\* the list of the card and still in the table
GestorDeleteOffered ==
    /\ page.name = "ContractForm" /\ page.mode = "editar"
    /\ session.role = "gestor" /\ RolesOf(session.user_id) = {"gestor"}
    /\ toast = toast_success("Documento excluido com sucesso!")
    /\ page.documents = {}
    /\ \E r \in db["documents"] : r.contract_id = page.id

\* the page after a request that failed: as it was before the request
Settled(p) == [p EXCEPT !.saving = FALSE, !.response = NoResponse]

Failed(response) == response.kind \notin {"ok", "none"}

\* C16: when the insert or update of the supplier form, the contract form,
\* the new-payment dialog, the new-obligation dialog or the role dialog fails,
\* whatever the kind of the failure, the tables are not changed, the request
\* changes nothing of the page but the saving flag, and the answer leaves the
\* page, its form data, its list and its dialog as they were, shows an error
\* message and sets the flag to false
FailureKeepsForm ==
    [][/\ \A name \in {"SupplierForm", "ContractForm", "Payments", "Obligations"} :
            /\ (page.name = name /\ ~page.saving /\ page'.name = name /\ page'.saving)
                => /\ page' = [page EXCEPT !.saving = TRUE, !.response = page'.response]
                   /\ Failed(page'.response) => db' = db
            /\ (page.name = name /\ page.saving /\ Failed(page.response)
                 /\ (\/ SupplierForm_answered \/ ContractForm_answered
                     \/ Payments_answered \/ Obligations_answered))
                => /\ page' = Settled(page)
                   /\ toast'.type = "error"
                   /\ db' = db
       /\ (page.name = "SupplierForm" /\ page.saving)
            => \A k \in FailureKinds :
                  LET a == SupplierForm_answer(page, Failure(k))
                  IN  a.page = Settled(page) /\ a.toast.type = "error"
       /\ (page.name = "ContractForm" /\ page.saving)
            => \A k \in FailureKinds :
                  LET a == ContractForm_answer(page, Failure(k))
                  IN  a.page = Settled(page) /\ a.toast.type = "error"
       /\ (page.name = "Payments" /\ page.saving)
            => \A k \in FailureKinds, payments \in SUBSET db["payments"] :
                  LET a == Payments_answer(page, Failure(k), payments)
                  IN  a.page = Settled(page) /\ a.toast.type = "error"
       /\ (page.name = "Obligations" /\ page.saving)
            => \A k \in FailureKinds, obligations \in SUBSET db["obligations"] :
                  LET a == Obligations_answer(page, Failure(k), obligations)
                  IN  a.page = Settled(page) /\ a.toast.type = "error"
       /\ (\E failed \in BOOLEAN : handleRoleChange(failed))
            => /\ usersPage' = [usersPage EXCEPT !.updating = TRUE,
                                                 !.request = usersPage'.request]
               /\ usersPage'.request.error => db' = db
       /\ (RoleChangeAnswered /\ usersPage.request.error)
            => /\ usersPage' = [usersPage EXCEPT !.updating = FALSE, !.request = NoRequest]
               /\ toast'.type = "error"
               /\ db' = db]_vars

\* a payment filled in by an editor was refused by the policy (the actor had
\* lost the role): the dialog is open with the data, the error is shown
FailedPaymentWitness ==
    /\ page.name = "Payments" /\ page.isDialogOpen /\ ~page.saving
    /\ page.formData.contract_id # NullId /\ parseAmount(page.formData.amount) > 0
    /\ toast = toast_error("Erro ao cadastrar pagamento")
    /\ canEdit(session.role) /\ RolesOf(session.user_id) = {"visualizador"}
    /\ db["payments"] = {}

\* C17: what the client shows and holds after a failed backend call is the
\* same for every kind of failure: the answers of the forms, of the dialogs
\* and of the two status buttons to an error do not depend on the error, and
\* the failures the requests of the document card can meet in the state the
\* card is in (refused by a policy, refused by a constraint, backend not
\* reached) all end in the same message and the same card
FailureOutcomeUniform ==
    /\ \A k1, k2 \in FailureKinds :
          /\ page.name = "SupplierForm" =>
                SupplierForm_answer(page, Failure(k1)) = SupplierForm_answer(page, Failure(k2))
          /\ page.name = "ContractForm" =>
                ContractForm_answer(page, Failure(k1)) = ContractForm_answer(page, Failure(k2))
          /\ page.name = "Payments" =>
                /\ Payments_answer(page, Failure(k1), page.payments)
                       = Payments_answer(page, Failure(k2), page.payments)
                /\ markAsPaid_answer(page, Failure(k1), page.payments)
                       = markAsPaid_answer(page, Failure(k2), page.payments)
          /\ page.name = "Obligations" =>
                /\ Obligations_answer(page, Failure(k1), page.obligations)
                       = Obligations_answer(page, Failure(k2), page.obligations)
                /\ markAsCompleted_answer(page, Failure(k1), page.obligations)
                       = markAsCompleted_answer(page, Failure(k2), page.obligations)
    /\ (page.name = "ContractForm" /\ page.mode = "editar" /\ canEdit(session.role)) =>
          \A f1, f2 \in 0 .. 2 :
             /\ LET r1 == handleUpload_requests(page, f1).response
                    r2 == handleUpload_requests(page, f2).response
                IN  (Failed(r1) /\ Failed(r2))
                        => handleUpload_answer(page, r1, page.documents)
                               = handleUpload_answer(page, r2, page.documents)
             /\ \A doc \in page.documents :
                    LET r1 == handleDelete_requests(doc, f1).response
                        r2 == handleDelete_requests(doc, f2).response
                    IN  (Failed(r1) /\ Failed(r2))
                            => handleDelete_answer(page, r1, doc)
                                   = handleDelete_answer(page, r2, doc)

\* the card shows the text of the policy violation to an actor whose upload
\* the policy refused
PolicyMessageShown ==
    /\ page.name = "ContractForm" /\ page.mode = "editar"
    /\ toast = toast_error(ErrorMessage("rls"))

\* C18: the list an administrator loads on the audit page holds at most
\* LogsLimit entries of audit_logs, each once, the later created first, and
\* when the table holds more than LogsLimit entries the list holds LogsLimit
\* of them and no entry left out is more recent than a listed one
LoadedListBounded ==
    [][(MountAuditLogs(FALSE) /\ isAdmin(session.role) /\ has_role(session.user_id, "admin"))
        => LET logs == page'.logs
               all == db["audit_logs"]
               listed == {logs[i].id : i \in DOMAIN logs}
           IN  /\ page'.name = "AuditLogs"
               /\ Len(logs) <= LogsLimit
               /\ \A i, j \in DOMAIN logs : i < j => logs[i].created_at >= logs[j].created_at
               /\ \A i, j \in DOMAIN logs : i # j => logs[i].id # logs[j].id
               /\ \A i \in DOMAIN logs :
                      \E r \in all : r.id = logs[i].id /\ r.created_at = logs[i].created_at
               /\ Cardinality(all) > LogsLimit
                      => /\ Len(logs) = LogsLimit
                         /\ \A r \in all : r.id \notin listed
                                => \A i \in DOMAIN logs : logs[i].created_at >= r.created_at]_vars

\* more entries than the limit exist, and the list holds the limit, the
\* newer entry first and an older one left out
LimitReachedWitness ==
    /\ page.name = "AuditLogs" /\ Len(page.logs) = LogsLimit
    /\ Cardinality(db["audit_logs"]) > LogsLimit
    /\ page.logs[1].created_at > page.logs[LogsLimit].created_at
    /\ \E r \in db["audit_logs"] :
          /\ \A i \in DOMAIN page.logs : page.logs[i].id # r.id
          /\ r.created_at < page.logs[1].created_at

\* C19: the actor label of each loaded entry is the full name of the loaded
\* profile of the entry's actor, and it is Sistema exactly when the entry has
\* no actor or no loaded profile is the actor's
ActorLabelIsProfileName ==
    page.name = "AuditLogs" =>
        \A i \in DOMAIN page.logs :
            LET log == page.logs[i]
                matching == {q \in page.profiles : q.user_id = log.user_id}
            IN  /\ \A q \in matching : log.user_name = q.full_name
                /\ log.user_name = "Sistema" <=> (log.user_id = NullId \/ matching = {})

\* the lower-case letter of a character
LowerChar(c) ==
    CASE c = "A" -> "a" [] c = "B" -> "b" [] c = "D" -> "d" [] c = "S" -> "s"
      [] OTHER -> c

IsSubstring(needle, hay) ==
    \E k \in 0 .. (Len(hay) - Len(needle)) :
        \A i \in 1 .. Len(needle) : hay[k + i] = needle[i]

\* the entry passes the search and the two filters of page p
Wanted(log, p) ==
    LET term == [i \in DOMAIN p.searchTerm |-> LowerChar(p.searchTerm[i])]
        Field(text) == LET cs == Chars(text) IN [i \in DOMAIN cs |-> LowerChar(cs[i])]
    IN  /\ \/ IsSubstring(term, Field(log.user_name))
           \/ IsSubstring(term, Field(log.table_name))
           \/ log.record_id # NullText /\ IsSubstring(term, Field(log.record_id))
        /\ p.actionFilter = "all" \/ p.actionFilter = log.action
        /\ p.tableFilter = "all" \/ p.tableFilter = log.table_name

\* C20: the entries displayed are the loaded entries that pass the search
\* (case-insensitive substring of the actor label, the table name or the
\* record id) and the action and table filters, in the order loaded; with no
\* search term and both filters on all, every loaded entry is displayed
DisplayedIsFiltered ==
    page.name = "AuditLogs" =>
        LET shown == filteredLogs(page)
            keep == {i \in DOMAIN page.logs : Wanted(page.logs[i], page)}
        IN  /\ Len(shown) = Cardinality(keep)
            /\ \E f \in [DOMAIN shown -> keep] :
                   /\ \A a, b \in DOMAIN shown : a < b => f[a] < f[b]
                   /\ \A a \in DOMAIN shown : shown[a] = page.logs[f[a]]
            /\ (page.searchTerm = <<>> /\ page.actionFilter = "all" /\ page.tableFilter = "all")
                   => shown = page.logs

\* a search in mixed case and an action filter display one of two loaded
\* entries, the one of the actor whose name holds the term
FilteredWitness ==
    /\ page.name = "AuditLogs" /\ Len(page.logs) = 2
    /\ page.searchTerm = <<"a", "D">> /\ page.actionFilter = "INSERT"
    /\ Len(filteredLogs(page)) = 1
    /\ filteredLogs(page)[1].user_name = "Admin"

(* ------------------------ referential integrity ------------------------ *)
ContractChildren == {"documents", "obligations", "payments"}

\* the rows of documents, obligations and payments that reference contract id
ChildrenOf(d, id) == {r \in UNION {d[tbl] : tbl \in ContractChildren} : r.contract_id = id}

\* C21: after any sequence of inserts and deletes every documents,
\* obligations and payments row references an existing contracts row; a
\* delete of a contract that removes the row removes its documents,
\* obligations and payments in the same step and is not refused because of
\* them; a contract with no supplier satisfies the constraints.
ChildrenReferenceContracts ==
    /\ [](\A tbl \in ContractChildren :
            \A r \in db[tbl] : r.contract_id \in Ids(db["contracts"]))
    /\ [][\A uid \in Users, row \in db["contracts"] :
            ApiDelete(uid, "contracts", row) =>
                /\ (Permitted(uid, "contracts", "SELECT", row)
                        /\ Permitted(uid, "contracts", "DELETE", row))
                    => row \notin db'["contracts"]
                /\ row \notin db'["contracts"] => ChildrenOf(db', row.id) = {}]_vars
    /\ [][\A uid \in Users :
            \A vals \in InsertValues(uid, "contracts") :
                (/\ ApiInsert(uid, "contracts", vals)
                 /\ vals.supplier_id = NullId
                 /\ has_role(uid, "admin") \/ has_role(uid, "gestor"))
                => \E c \in db'["contracts"] \ db["contracts"] : c.supplier_id = NullId]_vars

\* a contract with no supplier that a payment, an obligation or a document
\* references, which an administrator may delete
ContractWithChildWitness ==
    \E c \in db["contracts"] :
        /\ c.supplier_id = NullId
        /\ ChildrenOf(db, c.id) # {}
        /\ \E uid \in authUsers : Permitted(uid, "contracts", "DELETE", c)

(* --------------------------- concurrent updates ------------------------ *)
\* the actor holds at the backend the role the update policy of tbl asks for
MayUpdate(uid, tbl) ==
    IF tbl = "user_roles" THEN has_role(uid, "admin")
    ELSE has_role(uid, "admin") \/ has_role(uid, "gestor")

StaleResponseIgnored ==
    [][PendingAnswered => (page'.name = page.name /\ toast' = NoToast)]_vars

\* a save of a form that succeeded is awaited while the user is on the
\* dashboard
SavedAfterLeavingWitness ==
    /\ page.name = "Dashboard" /\ "pending" \in DOMAIN page
    /\ page.pending.response = Ok

(* --------------------------- one role per user ------------------------- *)
\* C24: after any sequence of signups and role changes (updates of the role
\* rows of a user, from the Users page or from another session) every
\* identity that exists has exactly one user_roles row: has_role(u, r) holds
\* for exactly one role r, and get_user_role(u) returns that role.
ExactlyOneRole ==
    \A u \in authUsers :
        /\ Cardinality({r \in db["user_roles"] : r.user_id = u}) = 1
        /\ Cardinality(RolesOf(u)) = 1
        /\ get_user_role(u) = RolesOf(u)

\* the Users page has changed the role of a user who signed up, and the
\* answer of the update is awaited
RoleChangedWitness ==
    /\ usersPage.mounted /\ usersPage.updating /\ ~usersPage.request.error
    /\ \E u \in authUsers :
          /\ u = usersPage.request.target
          /\ RolesOf(u) = {usersPage.newRole} /\ usersPage.newRole = "gestor"

(* ------------------------- audit_logs is only read ---------------------- *)
\* C25: no operation of the application (signup, insert, update or delete of
\* a supplier, contract, payment, obligation or document, role change, load
\* of the audit page) adds an entry to audit_logs: the table holds after the
\* step what it held before, and so stays as the migration left it.
OperationsWriteNoAudit ==
    /\ [](db["audit_logs"] = {})
    /\ [][db'["audit_logs"] = db["audit_logs"]]_vars

\* an administrator has the audit page open and it lists nothing, while a
\* contract and a row that references it are stored
NothingLoggedWitness ==
    /\ page.name = "AuditLogs" /\ isAdmin(session.role) /\ page.logs = <<>>
    /\ \E c \in db["contracts"] : ChildrenOf(db, c.id) # {}

(* ----------------------- documents and their objects ------------------- *)
\* C26: after any sequence of uploads and deletes of the document card, each
\* of whose two requests may fail, every documents row references an object
\* stored in contracts-documents and every object stored there is referenced
\* by a documents row.
DocumentsMatchObjects ==
    /\ \A d \in db["documents"] :
          \E o \in db["storage_objects"] : o.bucket_id = Bucket /\ o.name = d.file_path
    /\ \A o \in db["storage_objects"] :
          \E d \in db["documents"] : d.file_path = o.name

\* an upload whose object was stored and whose insert into documents failed:
\* the card shows the error and the object has no row
OrphanObjectWitness ==
    /\ page.name = "ContractForm" /\ page.mode = "editar"
    /\ toast.type = "error"
    /\ db["storage_objects"] # {} /\ db["documents"] = {}

WrongListWitness ==
    /\ page.name = "ContractsList" /\ page.inflight = {}
    /\ page.statusFilter = "ativo"
    /\ \E c \in page.contracts : c.status = "rascunho"

(* ----------------------- no write without canEdit ----------------------- *)
\* the step sends an insert or an update: a form or a dialog starts to await
\* its save, a payment or an obligation is marked, a file is uploaded
WriteRequestSent ==
    \/ /\ "saving" \in DOMAIN page /\ "saving" \in DOMAIN page'
       /\ ~page.saving /\ page'.saving
    \/ \E id \in 1 .. MaxRows, unreachable \in BOOLEAN :
          markAsPaid(id, unreachable) \/ markAsCompleted(id, unreachable)
    \/ \E fault \in 0 .. 2 : handleUpload("pdf", fault)

\* C28: while canEdit of the session is false the browser sends no insert and
\* no update on suppliers, contracts, payments, obligations or documents,
\* whatever route is opened and whatever is clicked; the tables (and the
\* bucket) hold after each step of the browser what they held before.
WritesNeedCanEdit ==
    [][/\ WriteRequestSent => canEdit(session.role)
       /\ (~canEdit(session.role) /\ authUsers' = authUsers) => db' = db]_vars

\* a session without canEdit opened /contratos/novo, filled the form and
\* pressed save: the form answered with the permission message
RefusedAtFormWitness ==
    /\ session # NoSession /\ ~canEdit(session.role)
    /\ page.name = "ContractForm" /\ page.mode = "novo"
    /\ contractSchema(page.formData) /\ ~page.saving
    /\ toast = toast_error("Voce nao tem permissao para esta acao")

EditarSubmittedWitness ==
    /\ page.name = "SupplierForm" /\ page.mode = "editar"
    /\ page.saving /\ page.response = Ok
    /\ page.formData = [name |-> "Acme", is_active |-> TRUE]

(* ------------------------- the status of a payment ---------------------- *)
\* the stored payment with the given id, if any
StoredPayment(d, id) == {r \in d["payments"] : r.id = id}

\* C30: a payment created through the page is stored as pendente with no
\* payment_date; the stored status of a payment becomes pago only from
\* pendente, with payment_date set by the same update; and markAsPaid leaves
\* a payment whose stored status is no longer pendente as it is, also when
\* the list it was clicked in was loaded before another session's change.
PaidOnlyFromPendente ==
    [][/\ \A r \in db'["payments"] :
            StoredPayment(db, r.id) = {} => r.status = "pendente" /\ r.payment_date = NullText
       /\ \A r \in db["payments"], q \in db'["payments"] :
            (q.id = r.id /\ q.status = "pago" /\ r.status # "pago")
            => r.status = "pendente" /\ q.payment_date # NullText
       /\ \A id \in 1 .. MaxRows :
            (\E unreachable \in BOOLEAN : markAsPaid(id, unreachable))
            => \A r \in StoredPayment(db, id) :
                  r.status # "pendente" => StoredPayment(db', id) = {r}]_vars

\* the page lists as pendente a payment that another session has marked as
\* paid the day before, and an editing session is looking at it
StalePaymentWitness ==
    /\ page.name = "Payments" /\ canEdit(session.role)
    /\ \E p \in page.payments, r \in db["payments"] :
          /\ p.id = r.id /\ p.status = "pendente"
          /\ r.status = "pago" /\ r.payment_date = "yesterday"

====
